---- MODULE Spec2Model ----
(***************************************************************************)
(* A model of the ingestion pipeline of the LinkedIn jobs research agent:  *)
(*   - the browser-mode orchestrator (pipeline/scraper_agent.py,           *)
(*     _run_playwright_scraper) driving BrowserSession.fetch_page          *)
(*     (tools/browser_tool.py);                                            *)
(*   - the deduplicator (tools/parser_tool.py, deduplicate_jobs);          *)
(*   - extraction over the pages of a scraper result                       *)
(*     (pipeline/parser_agent.py, run_parser and parse_job_pages);         *)
(*   - the API-mode run (pipeline/scraper_agent.py, run_scraper,           *)
(*     scrape_via_serpapi and _run_serpapi_scraper).                       *)
(***************************************************************************)
EXTENDS Integers, Sequences, FiniteSets, TLC

(***************************************************************************)
(* Bounds of the model.                                                    *)
(***************************************************************************)
\* longest query list handed to the orchestrator
MaxQueries == 2
\* largest value of the scraper config's max_pages
MaxPagesBound == 2
\* largest value of the scraper config's max_retries
MaxRetriesBound == 3
\* most fetch_page calls a run of the browser-mode scraper can come to:
\* the runs taken up have |queries| x max_pages x max_retries within it
MaxFetches == 12
\* longest record list handed to the deduplicator
MaxJobs == 3
\* longest page list handed to the parser
MaxParsePages == 3

(***************************************************************************)
(* Program constants.                                                      *)
(***************************************************************************)
\* jobs_per_page = 25
JobsPerPage == 25
\* a query given up only at the third Captcha
CaptchaLimit_Three == 2 + 1
\* if captcha_count >= 2
CaptchaLimit == 2

\* Python's None
None == "<None>"

\* len(batch) < 10: the size of a full page of provider results
FullPage == 10

\* SERPAPI_MARKER = "SERPAPI_JSON::"
SERPAPI_MARKER == "SERPAPI_JSON::"

(***************************************************************************)
(* Inputs.                                                                 *)
(***************************************************************************)
\* search.roles and search.locations of the config
Roles == <<"Backend Engineer", "ML Engineer">>
Locations == <<"India", "United States">>

\* run_scraper: the cross product of roles and locations, role-major
AllQueries ==
    [i \in 1..(Len(Roles) * Len(Locations)) |->
        [keywords |-> Roles[((i - 1) \div Len(Locations)) + 1],
         location |-> Locations[((i - 1) % Len(Locations)) + 1]]]

\* the query lists a run may be given: the first k queries of the plan
QueryLists == { SubSeq(AllQueries, 1, k) : k \in 0..MaxQueries }

\* A rendered markup is modelled by the set of signal tokens it contains;
\* the empty set is the empty string, which page.content() never returns.
\* "cards" stands for listing content that carries no signal.
captcha_signals == {"captcha", "CAPTCHA", "cf-captcha-container", "recaptcha",
                    "challenge-form", "hCaptcha",
                    "Please verify you are a human", "bot detection"}
rate_signals == {"429", "Too Many Requests", "rate limit", "slow down",
                 "temporarily blocked"}
no_more_signals == {"No matching jobs found", "no-results"}

Markups ==
    { {"cards"}, {"cards", "No matching jobs found"},
      {"captcha"}, {"429"}, {"recaptcha", "rate limit"} }

\* str(e) of an exception raised inside fetch_page's try block
ExceptionMessages == {"Timeout 30000ms exceeded"}

\* What the browser does on one call of fetch_page once its page handle is
\* open: the navigation (or a later step of the try block) raises, or markup
\* is rendered.
FetchBehaviours ==
    { [kind |-> "raises", msg |-> m, html |-> {}] : m \in ExceptionMessages }
    \cup { [kind |-> "content", msg |-> "", html |-> h] : h \in Markups }

\* What `await self._context.new_page()` of fetch_page does: the handle is
\* opened, the call raises, or a stop signal (task.cancel()) is delivered
\* while the call is suspended.
NewPageBehaviours == {"opens", "raises", "cancelled"}

\* What an `await asyncio.sleep(...)` of the run does: it returns, or a stop
\* signal is delivered while it is suspended.
SleepBehaviours == {"wakes", "cancelled"}

\* What an await of BrowserSession.start or BrowserSession.stop does: the
\* call returns, it raises, or a stop signal is delivered while it is
\* suspended.
AwaitBehaviours == {"returns", "raises", "cancelled"}

\* What lines 170-193 of start() do once the browser is launched:
\* "not_installed": new_context and add_init_script return and the import
\* of line 192, or the new_page of line 193, raises an ImportError, which
\* the handler of line 196 passes over; "opens": the page of line 193 is
\* opened; "raises", "cancelled": new_context, add_init_script or new_page
\* raises another exception, or a stop signal is delivered in one of them.
ContextBehaviours == {"not_installed", "opens", "raises", "cancelled"}

\* What lines 194-195 of start() do with the page of line 193 open:
\* "closes": the page is patched and closed; "import_error": stealth_async
\* or page.close raises an ImportError, which the handler of line 196
\* passes over, so start() returns with the page open; "raises",
\* "cancelled": another exception, or a stop signal, with the page open.
StealthBehaviours == {"closes", "import_error", "raises", "cancelled"}

\* What `await page.close()` in the finally clause of fetch_page (line 252)
\* does: the handle is closed, the call raises, or a stop signal is
\* delivered while it is suspended; a close that did not return leaves the
\* handle open.
CloseBehaviours == {"closes", "raises", "cancelled"}

\* Text is a sequence of characters, so that lower() and strip() are
\* computed and not assumed.
Whitespace == {" "}
Titles == { <<"a">>, <<" ", "A">> }
Companies == { <<"x">>, <<"Y", " ">> }
JobIds == {None, "id1", "id2"}

\* the fields of a JobPosting that deduplicate_jobs reads
JobContents ==
    [job_id : JobIds, title : Titles, company_name : Companies]

\* the record list handed to deduplicate_jobs that holds what f lists; uid
\* is the identity of the object, its position in the list first given
JobList(f) ==
    [i \in 1..Len(f) |-> [uid |-> i, job_id |-> f[i].job_id,
                          title |-> f[i].title,
                          company_name |-> f[i].company_name]]

\* the selectors of parse_linkedin_job_cards, in the order they are tried
card_selectors ==
    << "li.jobs-search__results-list > .job-search-card",
       "ul.jobs-search__results-list li",
       ".base-card",
       "li[data-occludable-job-id]",
       ".job-search-card" >>

\* A payload handed to the parser is a sequence of tokens: the marker text,
\* the brackets of a JSON array, a provider record, a job card element or
\* a script element of type application/ld+json.
\*   sel        the card selectors the element matches
\*   title_tags what the four title lookups of a card return, in the order
\*              they are made: <<>> for None, <<text>> for a tag with this
\*              text
\*   raises     mapping the card raises after its title is read (a record:
\*              it is not a dict)
\*   schedule   detected_extensions.schedule_type of a record
\*   desc       description of a record
\*   ld         the JSON-LD objects of a script element
Token(kind, job_id, title, company) ==
    [kind |-> kind, job_id |-> job_id, title |-> title, company |-> company,
     sel |-> IF kind = "card" THEN {".base-card"} ELSE {},
     title_tags |-> IF kind = "card" THEN <<<<title>>, <<>>, <<>>, <<>>>>
                    ELSE <<<<>>, <<>>, <<>>, <<>>>>,
     raises |-> FALSE, schedule |-> <<>>, desc |-> <<>>, ld |-> <<>>]
MarkerToken == Token(SERPAPI_MARKER, "", <<>>, <<>>)
OpenArray == Token("[", "", <<>>, <<>>)
CloseArray == Token("]", "", <<>>, <<>>)

\* the (title, company) texts found in cards and provider records
PostingTexts ==
    { <<<<"a">>, <<"x">>>>, <<<<" ", "A">>, <<"x">>>>, <<<<"a">>, <<"Y", " ">>>> }

\* job cards: the identifier attribute ("" when the card has none) and the
\* texts of the title and company tags
CardTokens ==
    { Token("card", id, t[1], t[2]) :
        id \in {"id1", "id2", "id3"}, t \in PostingTexts }
    \cup { Token("card", "", <<"a">>, <<"x">>) }

\* provider records: job_id (None when the key is absent), title and
\* company_name
ItemTokens ==
    { Token("item", "id1", <<"a">>, <<"x">>),
      Token("item", None, <<" ", "A">>, <<"x">>),
      Token("item", None, <<"a">>, <<"Y", " ">>) }

\* text that json.loads gives up on with RecursionError: an array nested
\* deeper than the interpreter's recursion limit
DeepArray == Token("[[[[...", "", <<>>, <<>>)

\* json.dumps of a list of provider records
json_dumps(items) == <<OpenArray>> \o items \o <<CloseArray>>

\* the payloads of the pages handed to the parser: markup with one card,
\* the marker followed by a JSON array, and the marker followed by text
\* that is not JSON
ParsePayloads ==
    { <<c>> : c \in CardTokens }
    \cup { <<MarkerToken>> \o json_dumps(<<it>>) : it \in ItemTokens }
    \cup { <<MarkerToken, OpenArray, Token("item", "id2", <<"a">>, <<"x">>)>> }
    \cup { <<MarkerToken, DeepArray>> }

\* the most elements (cards, scripts, provider records) of a payload whose
\* extraction is examined on its own
MaxCards == 2

\* the four title lookups of a card of which only the first finds a tag
OnlyFirst(text) == <<<<text>>, <<>>, <<>>, <<>>>>

Card(job_id, sel, title_tags) ==
    [Token("card", job_id, <<>>, <<"x">>) EXCEPT
        !.sel = sel, !.title_tags = title_tags]

\* cards with and without employment signals and skill names in the title,
\* cards whose
\* title is found by a later lookup or by none, a card whose mapping
\* raises, and cards matched by different selectors
RichCards ==
    { Card("c1", {".base-card"}, OnlyFirst(<<"a">>)),
      Card("c2", {".base-card", ".job-search-card"},
           OnlyFirst(<<"Contract", " ", "a">>)),
      Card("c3", {".job-search-card"}, OnlyFirst(<<"a", " ", "part-time">>)),
      Card("c4", {".base-card"}, OnlyFirst(<<"Intern", " ", "Go">>)),
      Card("c5", {".base-card"}, OnlyFirst(<<"a", " ", "Intern", " ">>)),
      Card("c6", {".base-card"}, OnlyFirst(<<"part-time", " ", "Contract">>)),
      Card("c7", {".base-card"}, << <<<<" ">>>>, <<<<"a">>>>, <<>>, <<>> >>),
      Card("c8", {"li[data-occludable-job-id]"},
           << <<>>, <<>>, <<<<"A">>>>, <<>> >>),
      Card("", {".base-card"}, << <<>>, <<>>, <<>>, <<>> >>),
      [Card("c10", {".base-card"}, OnlyFirst(<<"a">>)) EXCEPT !.raises = TRUE],
      Card("c11", {"li.jobs-search__results-list > .job-search-card",
                   ".job-search-card"}, OnlyFirst(<<"A">>)),
      Card("c12", {"ul.jobs-search__results-list li"}, OnlyFirst(<<"a">>)) }

\* an object of a JSON-LD script: "@type", "title" and the name of
\* "hiringOrganization" (<<>> when the key is absent); is_dict is FALSE for
\* a list item that is not an object. address is what "address" of a
\* "jobLocation" object holds: "absent" (no jobLocation object, or one
\* without address), "dict" (an object with text parts), "str" (a text),
\* "nested" (an object with a part that is itself an object).
\* location_type is what "jobLocationType" holds: "absent", "str", "null"
\* or "list".
LdObject(type, title, company) ==
    [type |-> type, title |-> title, company |-> company, is_dict |-> TRUE,
     address |-> "absent", location_type |-> "absent"]

\* script elements: one object, a list of objects, or text that is not JSON
LdScript(kind, objects) ==
    [Token(kind, "", <<>>, <<>>) EXCEPT !.ld = objects]

RichScripts ==
    { LdScript("ld_dict",
               <<LdObject("JobPosting", <<"Contract", " ", "a">>, <<>>)>>),
      LdScript("ld_dict", <<LdObject("Organization", <<"a">>, <<"x">>)>>),
      LdScript("ld_dict", <<LdObject("JobPosting", <<>>, <<"x">>)>>),
      LdScript("ld_list",
               <<LdObject("JobPosting", <<"a">>, <<"x">>),
                 LdObject("Organization", <<"a">>, <<"x">>)>>),
      LdScript("ld_list",
               <<[LdObject("", <<>>, <<>>) EXCEPT !.is_dict = FALSE],
                 LdObject("JobPosting", <<"a">>, <<"x">>)>>),
      LdScript("ld_dict",
               <<[LdObject("JobPosting", <<"Go">>, <<"x">>) EXCEPT
                     !.address = "dict", !.location_type = "str"]>>),
      LdScript("ld_dict",
               <<[LdObject("JobPosting", <<"a">>, <<"x">>) EXCEPT
                     !.address = "str"]>>),
      LdScript("ld_dict",
               <<[LdObject("JobPosting", <<"a">>, <<"x">>) EXCEPT
                     !.location_type = "list"]>>),
      LdScript("ld_list",
               <<[LdObject("JobPosting", <<"a">>, <<>>) EXCEPT
                     !.location_type = "null"],
                 LdObject("JobPosting", <<"Go">>, <<"x">>)>>),
      LdScript("ld_list",
               <<LdObject("JobPosting", <<"Go">>, <<"x">>),
                 [LdObject("JobPosting", <<"a">>, <<"x">>) EXCEPT
                     !.address = "nested"]>>),
      LdScript("ld_bad", <<>>) }

Item(job_id, title, schedule, desc) ==
    [Token("item", job_id, title, <<"x">>) EXCEPT
        !.schedule = schedule, !.desc = desc]

\* provider records with and without identifier, schedule type,
\* description, employment signals and skill names; a record without title
\* and an array element that is not an object
RichItems ==
    { Item("id1", <<"a">>, <<>>, <<>>),
      Item(None, <<" ", "A">>, <<>>, <<>>),
      Item("id3", <<"Contract", " ", "a">>, <<"Full-time">>, <<>>),
      Item("id4", <<"a">>, <<>>, <<"Python", " ", "Contract">>),
      Item("id5", <<"Go", " ", "a">>, <<"Part-time">>, <<"Python">>),
      Item("id6", <<"Go">>, <<>>, <<>>),
      Item("id7", <<" ">>, <<>>, <<"Python">>),
      [Item("id8", <<"a">>, <<>>, <<>>) EXCEPT !.raises = TRUE] }

\* the payload made of the elements that f lists: markup with these
\* elements, or the marker followed by the JSON array of these records
RichPayload(f) ==
    IF f # <<>> /\ f[1].kind = "item"
    THEN <<MarkerToken>> \o json_dumps(f) ELSE f

\* A credential is a sequence of pieces of text, blanks among them, so that
\* strip() is computed; <<None>> is Python's None.
NoKey == <<None>>
_PLACEHOLDER_KEYS ==
    { <<>>, <<"PASTE_YOUR_SERPAPI_KEY_HERE">>, <<"your_key_here">>,
      <<"YOUR_API_KEY">>, <<"serpapi_key">>, <<"xxxx">> }

\* os.getenv("SERPAPI_API_KEY", "") and data_source.serpapi.api_key
EnvKeys == { <<>>, <<" ", "xxxx">>, <<"env-key">> }
ConfigKeys == { NoKey, <<"PASTE_YOUR_SERPAPI_KEY_HERE", " ">>, <<"cfg-key">> }

\* the entry points of an API-mode run
ApiEntryPoints == {"run_scraper", "scrape_via_serpapi"}

\* from serpapi import GoogleSearch
ImportBehaviours == {"ok", "ImportError"}

\* str(results["error"])
ApiErrors == {"Invalid API key"}

\* What GoogleSearch(params).get_dict() does on one call: it raises, or it
\* returns an explicit error, or n results with a continuation token ("" for
\* none).
ApiResponses ==
    { [kind |-> "raises", err |-> "", n |-> 0, token |-> ""] }
    \cup { [kind |-> "error", err |-> e, n |-> 0, token |-> ""] :
             e \in ApiErrors }
    \cup { [kind |-> "results", err |-> "", n |-> c[1], token |-> c[2]] :
             c \in { <<0, "">>, <<3, "">>, <<3, "tok">>,
                     <<FullPage, "">>, <<FullPage, "tok">> } }

\* the entry points of extraction
EntryPoints == {"run_parser", "parse_job_pages"}

(***************************************************************************)
(* State.                                                                  *)
(***************************************************************************)
VARIABLES
    \* --- browser-mode run -------------------------------------------------
    queries,             \* the query list (argument)
    max_pages,           \* config["max_pages"]
    max_retries,         \* config["max_retries"]
    pc,                  \* position of the run
    qi,                  \* 1-based index of the current query
    page_num,            \* page_num of the page loop (0-based)
    attempt,             \* attempt of the retry loop (0-based)
    result,              \* <<>> for None, else <<ScrapePageResult>>
    query_failed,
    captcha_count,
    captcha_encountered,
    pages,               \* List[RawJobPage]
    failed_queries,      \* List[str]
    scraper_result,      \* <<>> until returned, then <<ScraperResult>>
    playwright,          \* BrowserSession._playwright: "none", "open", "closed"
    browser,             \* BrowserSession._browser:    "none", "open", "closed"
    \* the browser's side of the run: what fetch_page was called for
    calls_qi,            \* query index of the last fetch_page call (0: none)
    calls_pn,            \* page number (1-based) of the last fetch_page call
    calls_query,         \* fetch_page calls made for query calls_qi
    calls_page,          \* fetch_page calls made for page calls_pn of it
    captcha_seen,        \* Captcha outcomes returned for query calls_qi
    open_pages,          \* page handles of the session that are open
    max_open_pages,      \* the most page handles open at one time so far
    exc,                 \* the exception that left the run, and where it was
                         \* raised
    \* --- deduplicator -----------------------------------------------------
    jobs,                \* the input list
    unique,              \* deduplicate_jobs(jobs)[0]
    dupe_count,          \* deduplicate_jobs(jobs)[1]
    again,               \* <<>> or <<deduplicate_jobs(unique)>>
    permuted,            \* <<>> or <<a permutation of jobs and its result>>
    dpc,                 \* position of the deduplicator run
    \* --- parser ------------------------------------------------------------
    entry_point,         \* the extraction entry point that is run
    sr_pages,            \* scraper_result.pages
    page_i,              \* 1-based index of `for page in scraper_result.pages`
    all_jobs,
    total_failed,
    parsed_as,           \* per page taken up: "skipped", "json" or "markup"
    pages_ok,            \* pages whose try block ran to its end
    batch,               \* <<>> until returned, then <<ParsedJobBatch>>
    ppc,                 \* position of the parser run
    \* --- API-mode run (with queries, max_pages, pc, qi, page_num, pages,
    \*     failed_queries and scraper_result above) ---------------------------
    api_entry,           \* the entry point that is run
    config_key,          \* the credential of the config (or the argument)
    env_key,             \* the credential of the environment
    api_key,             \* the credential handed to _run_serpapi_scraper
    next_page_token,
    query_jobs,          \* the provider records collected for the query
    last_response,       \* <<>> or <<the outcome of the query's last call>>
    requests_total       \* GoogleSearch(...).get_dict() calls of the run

bvars == <<queries, max_pages, max_retries, pc, qi, page_num, attempt, result,
           query_failed, captcha_count, captcha_encountered, pages,
           failed_queries, scraper_result, playwright, browser,
           calls_qi, calls_pn, calls_query, calls_page, captcha_seen,
           open_pages, max_open_pages, exc>>
dvars == <<jobs, unique, dupe_count, again, permuted, dpc>>
pvars == <<entry_point, sr_pages, page_i, all_jobs, total_failed, parsed_as,
           pages_ok, batch, ppc>>
avars == <<api_entry, config_key, env_key, api_key, next_page_token,
           query_jobs, last_response, requests_total>>
vars == <<bvars, dvars, pvars, avars>>

Range(s) == { s[i] : i \in 1..Len(s) }

(***************************************************************************)
(* tools/browser_tool.py                                                   *)
(***************************************************************************)
_is_captcha(html) == html \cap captcha_signals # {}

\* signal.lower() in html.lower(): the tokens of the model are compared as
\* they are, each rate signal being present or not
_is_rate_limited(html) == html \cap rate_signals # {}

\* current_page is not read by the code either
_has_next_page(html, current_page) == html \cap no_more_signals = {}

ScrapePageResult(html, success, error, captcha) ==
    [html |-> html, success |-> success, error |-> error, captcha |-> captcha]

\* BrowserSession.fetch_page from the try block to its return statement
fetch_page(b) ==
    IF b.kind = "raises"
    THEN ScrapePageResult({}, FALSE, b.msg, FALSE)
    ELSE IF _is_captcha(b.html)
    THEN ScrapePageResult({}, FALSE, None, TRUE)
    ELSE IF _is_rate_limited(b.html)
    THEN ScrapePageResult({}, FALSE, "rate_limited", FALSE)
    ELSE ScrapePageResult(b.html, TRUE, None, FALSE)

build_linkedin_url(keywords, location, start) == <<keywords, location, start>>

Max(a, b) == IF a >= b THEN a ELSE b

\* the exception of an await that does not return
AwaitException(a) == IF a = "raises" THEN "Exception" ELSE "CancelledError"

\* the locals of a run are gone with its frame
DiscardLocals ==
    /\ attempt' = 0 /\ result' = <<>> /\ query_failed' = FALSE
    /\ captcha_count' = 0 /\ captcha_encountered' = FALSE
    /\ pages' = <<>> /\ failed_queries' = <<>>

\* no exception has left the run
NoException == [kind |-> "none", from |-> "none"]

\* An exception of this kind, raised at `from`, leaves the body of the
\* `async with` block; __aexit__ is entered next.
LeaveRun(kind, from) ==
    /\ exc' = [kind |-> kind, from |-> from]
    /\ pc' = "leaving"
    /\ DiscardLocals
    /\ UNCHANGED <<playwright, browser>>

\* the page handles open when fetch_page is left after its handle was
\* opened: `finally: await page.close()` at lines 251-252
PageHandlesAfter(open, c) == IF c = "closes" THEN open - 1 ELSE open

\* the exception that leaves fetch_page when page.close() does not return
CloseException(c) == IF c = "raises" THEN "Exception" ELSE "CancelledError"

(***************************************************************************)
(* pipeline/scraper_agent.py, _run_playwright_scraper                      *)
(***************************************************************************)
FailedKey(q) == <<q.keywords, "|", q.location>>

RawJobPage(q, pn, html, success, error_message) ==
    [url |-> build_linkedin_url(q.keywords, q.location, pn * JobsPerPage),
     html |-> html, query |-> q.keywords, location |-> q.location,
     page_number |-> pn + 1, success |-> success,
     error_message |-> error_message]

BrowserIdle ==
    /\ queries = <<>> /\ max_pages = 1 /\ max_retries = 1
    /\ pc = "off" /\ qi = 1 /\ page_num = 0 /\ attempt = 0 /\ result = <<>>
    /\ query_failed = FALSE /\ captcha_count = 0
    /\ captcha_encountered = FALSE /\ pages = <<>> /\ failed_queries = <<>>
    /\ scraper_result = <<>> /\ playwright = "none" /\ browser = "none"
    /\ calls_qi = 0 /\ calls_pn = 0 /\ calls_query = 0 /\ calls_page = 0
    /\ captcha_seen = 0 /\ open_pages = 0 /\ max_open_pages = 0
    /\ exc = NoException

BrowserInit ==
    /\ queries \in QueryLists
    /\ max_pages \in 1..MaxPagesBound
    /\ max_retries \in 1..MaxRetriesBound
    /\ Len(queries) * max_pages * max_retries <= MaxFetches
    /\ pc = "start" /\ qi = 1 /\ page_num = 0 /\ attempt = 0 /\ result = <<>>
    /\ query_failed = FALSE /\ captcha_count = 0
    /\ captcha_encountered = FALSE /\ pages = <<>> /\ failed_queries = <<>>
    /\ scraper_result = <<>> /\ playwright = "none" /\ browser = "none"
    /\ calls_qi = 0 /\ calls_pn = 0 /\ calls_query = 0 /\ calls_page = 0
    /\ captcha_seen = 0 /\ open_pages = 0 /\ max_open_pages = 0
    /\ exc = NoException

\* start() raises or is cancelled: __aexit__ is not run and the exception
\* leaves the run with what start() had opened
StartFails(kind) ==
    /\ exc' = [kind |-> kind, from |-> "start"]
    /\ pc' = "raised"

\* start() returns: the body of the `async with` block is entered
StartReturns ==
    /\ exc' = exc
    /\ pc' = IF Len(queries) = 0 THEN "exit" ELSE "fetch"

\* async with BrowserSession(...) as session: __aenter__ runs start(),
\* which is suspended in `await async_playwright().start()` (line 154).
StartPlaywright ==
    /\ pc = "start"
    /\ \E a \in AwaitBehaviours :
         IF a = "returns"
         THEN playwright' = "open" /\ pc' = "start_launch" /\ exc' = exc
         ELSE playwright' = playwright /\ StartFails(AwaitException(a))
    /\ UNCHANGED <<browser, open_pages, max_open_pages>>
    /\ UNCHANGED <<queries, max_pages, max_retries, qi, page_num, attempt,
                   result, query_failed, captcha_count, captcha_encountered,
                   pages, failed_queries, scraper_result, calls_qi, calls_pn,
                   calls_query, calls_page, captcha_seen>>
    /\ UNCHANGED <<dvars, pvars, avars>>

\* start() is suspended in `await launcher.launch(...)` (line 157).
LaunchBrowser ==
    /\ pc = "start_launch"
    /\ \E a \in AwaitBehaviours :
         IF a = "returns"
         THEN browser' = "open" /\ pc' = "start_context" /\ exc' = exc
         ELSE browser' = browser /\ StartFails(AwaitException(a))
    /\ UNCHANGED <<playwright, open_pages, max_open_pages>>
    /\ UNCHANGED <<queries, max_pages, max_retries, qi, page_num, attempt,
                   result, query_failed, captcha_count, captcha_encountered,
                   pages, failed_queries, scraper_result, calls_qi, calls_pn,
                   calls_query, calls_page, captcha_seen>>
    /\ UNCHANGED <<dvars, pvars, avars>>

\* start() is suspended in new_context (line 170), in add_init_script
\* (line 188) or in the new_page of the stealth block (line 193): the
\* browser is launched and no page is open.
OpenContext ==
    /\ pc = "start_context"
    /\ \E c \in ContextBehaviours :
         CASE c = "not_installed" ->
                /\ StartReturns
                /\ UNCHANGED <<open_pages, max_open_pages>>
           [] c = "opens" ->
                /\ pc' = "start_stealth" /\ exc' = exc
                /\ open_pages' = open_pages + 1
                /\ max_open_pages' = Max(max_open_pages, open_pages + 1)
           [] OTHER ->
                /\ StartFails(AwaitException(c))
                /\ UNCHANGED <<open_pages, max_open_pages>>
    /\ UNCHANGED <<playwright, browser>>
    /\ UNCHANGED <<queries, max_pages, max_retries, qi, page_num, attempt,
                   result, query_failed, captcha_count, captcha_encountered,
                   pages, failed_queries, scraper_result, calls_qi, calls_pn,
                   calls_query, calls_page, captcha_seen>>
    /\ UNCHANGED <<dvars, pvars, avars>>

\* start() is suspended in stealth_async (line 194) or in page.close (line
\* 195), with the page of line 193 open.
ApplyStealth ==
    /\ pc = "start_stealth"
    /\ \E c \in StealthBehaviours :
         CASE c = "closes" ->
                /\ StartReturns
                /\ open_pages' = open_pages - 1
           [] c = "import_error" ->
                /\ StartReturns
                /\ open_pages' = open_pages
           [] OTHER ->
                /\ StartFails(AwaitException(c))
                /\ open_pages' = open_pages
    /\ UNCHANGED <<playwright, browser, max_open_pages>>
    /\ UNCHANGED <<queries, max_pages, max_retries, qi, page_num, attempt,
                   result, query_failed, captcha_count, captcha_encountered,
                   pages, failed_queries, scraper_result, calls_qi, calls_pn,
                   calls_query, calls_page, captcha_seen>>
    /\ UNCHANGED <<dvars, pvars, avars>>

\* a retry loop that makes one attempt more than max_retries
NextAttempt_OneMore ==
    /\ attempt' = attempt + 1
    /\ pc' = IF attempt + 1 <= max_retries THEN "fetch" ELSE "resolve"

\* the retry loop goes on to its next iteration, or ends
NextAttempt ==
    /\ attempt' = attempt + 1
    /\ pc' = IF attempt + 1 < max_retries THEN "fetch" ELSE "resolve"

\* the browser's record of one more fetch_page call, for the current page
CountCall ==
    LET same_query == calls_qi = qi
        same_page == same_query /\ calls_pn = page_num + 1
    IN  /\ calls_qi' = qi
        /\ calls_pn' = page_num + 1
        /\ calls_query' = IF same_query THEN calls_query + 1 ELSE 1
        /\ calls_page' = IF same_page THEN calls_page + 1 ELSE 1
        /\ captcha_seen' = IF same_query THEN captcha_seen ELSE 0

\* `result = await session.fetch_page(url)` up to the first suspension of
\* fetch_page: `page = await self._context.new_page()` at line 214.  An
\* exception raised there is outside the try block: it leaves fetch_page
\* and both loops.
CallFetchPage ==
    /\ pc = "fetch"
    /\ CountCall
    /\ \E n \in NewPageBehaviours :
         IF n = "opens"
         THEN /\ pc' = "in_fetch"
              /\ open_pages' = open_pages + 1
              /\ max_open_pages' = Max(max_open_pages, open_pages + 1)
              /\ UNCHANGED <<playwright, browser, attempt, result,
                             query_failed, captcha_count,
                             captcha_encountered, pages, failed_queries,
                             exc>>
         ELSE /\ LeaveRun(IF n = "raises" THEN "Exception"
                          ELSE "CancelledError", "new_page")
              /\ UNCHANGED <<open_pages, max_open_pages>>
    /\ UNCHANGED <<queries, max_pages, max_retries, qi, page_num,
                   scraper_result>>
    /\ UNCHANGED <<dvars, pvars, avars>>

\* A stop signal delivered while the run is suspended inside the try block
\* of fetch_page (lines 216-247): CancelledError is not an Exception, so
\* the except clause lets it by and the finally clause runs page.close();
\* an exception of page.close() takes the place of the CancelledError.
\* __aexit__ is entered next.
StopSignal ==
    /\ pc = "in_fetch"
    /\ \E c \in CloseBehaviours :
         /\ open_pages' = PageHandlesAfter(open_pages, c)
         /\ LeaveRun(CloseException(c), "fetch_page")
    /\ UNCHANGED <<queries, max_pages, max_retries, qi, page_num,
                   scraper_result, calls_qi, calls_pn, calls_query,
                   calls_page, captcha_seen, max_open_pages>>
    /\ UNCHANGED <<dvars, pvars, avars>>

\* fetch_page has left its try block with a result, and page.close() in
\* the finally clause raises or is cancelled: the exception leaves
\* fetch_page, outside its try/except, and both loops; no result is handled.
CloseFails ==
    /\ \E c \in CloseBehaviours \ {"closes"} :
         /\ open_pages' = PageHandlesAfter(open_pages, c)
         /\ LeaveRun(CloseException(c), "fetch_page")
    /\ captcha_seen' = captcha_seen

\* whether the retry loop sleeps after the result r: line 150 after a
\* captcha below the limit, line 158 after another failure
Sleeps(r) ==
    IF r.captcha THEN captcha_count + 1 < CaptchaLimit ELSE ~r.success

\* The rest of one iteration of `for attempt in range(max_retries)` up to
\* its next suspension: fetch_page closes its page and returns its result,
\* the result is handled, and the loop is left (lines 149, 154) or suspended
\* in the sleep of line 150 or 158; or the close fails.
FetchAttempt ==
    /\ pc = "in_fetch"
    /\ \/ CloseFails
       \/ \E b \in FetchBehaviours :
         LET r == fetch_page(b) IN
         /\ open_pages' = PageHandlesAfter(open_pages, "closes")
         /\ captcha_seen' = captcha_seen + (IF r.captcha THEN 1 ELSE 0)
         /\ result' = <<r>>
         /\ attempt' = attempt
         /\ pc' = IF Sleeps(r) THEN "retry_sleep" ELSE "resolve"
         /\ UNCHANGED <<playwright, browser, pages, failed_queries, exc>>
         /\ IF r.captcha
            THEN /\ captcha_encountered' = TRUE
                 /\ captcha_count' = captcha_count + 1
                 /\ query_failed' = IF captcha_count + 1 >= CaptchaLimit
                                    THEN TRUE ELSE query_failed
            ELSE UNCHANGED <<captcha_encountered, captcha_count,
                             query_failed>>
    /\ UNCHANGED <<queries, max_pages, max_retries, qi, page_num,
                   scraper_result, calls_qi, calls_pn, calls_query,
                   calls_page, max_open_pages>>
    /\ UNCHANGED <<dvars, pvars, avars>>

\* The retry loop is suspended in `await asyncio.sleep(...)` (lines 150,
\* 158; lines 355, 364, 367 of scrape_linkedin_jobs): the handle is closed
\* and the result is handled; the loop goes on to its next iteration when
\* the sleep returns.
RetrySleep ==
    /\ pc = "retry_sleep"
    /\ \E sl \in SleepBehaviours :
         IF sl = "cancelled"
         THEN LeaveRun("CancelledError", "sleep")
         ELSE /\ NextAttempt
              /\ UNCHANGED <<result, query_failed, captcha_count,
                             captcha_encountered, pages, failed_queries,
                             playwright, browser, exc>>
    /\ UNCHANGED <<queries, max_pages, max_retries, qi, page_num,
                   scraper_result, calls_qi, calls_pn, calls_query,
                   calls_page, captcha_seen, open_pages, max_open_pages>>
    /\ UNCHANGED <<dvars, pvars, avars>>

\* a captcha counter that is never reset
NextQuery_NoReset ==
    /\ qi' = qi + 1
    /\ page_num' = 0
    /\ query_failed' = FALSE
    /\ captcha_count' = captcha_count
    /\ pc' = IF qi + 1 <= Len(queries) THEN "fetch" ELSE "exit"

\* `break` out of the page loop: the next query (query_failed = False,
\* captcha_count = 0), or the end of the query loop
NextQuery ==
    /\ qi' = qi + 1
    /\ page_num' = 0
    /\ query_failed' = FALSE
    /\ captcha_count' = 0
    /\ pc' = IF qi + 1 <= Len(queries) THEN "fetch" ELSE "exit"

\* the page loop goes on to its next page, or ends
NextPage ==
    IF page_num + 1 < max_pages
    THEN /\ page_num' = page_num + 1
         /\ pc' = "fetch"
         /\ UNCHANGED <<qi, query_failed, captcha_count>>
    ELSE NextQuery

\* a failed page that is not recorded
RecordFailedPage_Skip(q) ==
    pages' = pages

\* the else branch of lines 164-180: the failed RawJobPage
RecordFailedPage(q) ==
    pages' = Append(pages,
                    RawJobPage(q, page_num, {}, FALSE,
                               IF result # <<>> THEN result[1].error
                               ELSE "Unknown error"))

\* a failed page after which the page loop goes on
AfterFailedPage_NoBreak ==
    NextPage

\* the `break` of line 180
AfterFailedPage ==
    NextQuery

\* The page loop's body after the retry loop (lines 160-180), up to the
\* `break` or to the suspension in `await session.random_delay()` that
\* follows a page recorded as fetched.
ResolvePage ==
    /\ pc = "resolve"
    /\ LET q == queries[qi] IN
       IF query_failed
       THEN /\ failed_queries' = Append(failed_queries, FailedKey(q))
            /\ pages' = pages
            /\ NextQuery
            /\ attempt' = 0 /\ result' = <<>>
       ELSE IF result # <<>> /\ result[1].success /\ result[1].html # {}
       THEN /\ pages' = Append(pages,
                   RawJobPage(q, page_num, result[1].html, TRUE, None))
            /\ pc' = "page_delay"
            /\ UNCHANGED <<failed_queries, qi, page_num, query_failed,
                           captcha_count, attempt, result>>
       ELSE /\ RecordFailedPage(q)
            /\ failed_queries' = failed_queries
            /\ AfterFailedPage
            /\ attempt' = 0 /\ result' = <<>>
    /\ UNCHANGED <<captcha_encountered, playwright, browser, exc>>
    /\ UNCHANGED <<queries, max_pages, max_retries, scraper_result,
                   calls_qi, calls_pn, calls_query, calls_page,
                   captcha_seen, open_pages, max_open_pages>>
    /\ UNCHANGED <<dvars, pvars, avars>>

\* The page loop is suspended in `await session.random_delay()` (line 182;
\* line 389 of scrape_linkedin_jobs): the page is appended and page_num is
\* not advanced; the page loop goes on when the delay returns.
PageDelay ==
    /\ pc = "page_delay"
    /\ \E sl \in SleepBehaviours :
         IF sl = "cancelled"
         THEN /\ LeaveRun("CancelledError", "random_delay")
              /\ UNCHANGED <<qi, page_num>>
         ELSE /\ NextPage
              /\ attempt' = 0 /\ result' = <<>>
              /\ UNCHANGED <<pages, failed_queries, captcha_encountered,
                             playwright, browser, exc>>
    /\ UNCHANGED <<queries, max_pages, max_retries, scraper_result,
                   calls_qi, calls_pn, calls_query, calls_page,
                   captcha_seen, open_pages, max_open_pages>>
    /\ UNCHANGED <<dvars, pvars, avars>>

\* __aexit__ runs BrowserSession.stop, at the end of the body of `async
\* with` or with an exception on its way out: stop() is suspended in
\* `await self._browser.close()` (line 203; the browser is set whenever
\* the body was entered).  An exception of the close leaves the run, in
\* the place of the one on its way, with the engine running.
StopBrowser ==
    /\ pc \in {"exit", "leaving"}
    /\ \E a \in AwaitBehaviours :
         IF a = "returns"
         THEN /\ browser' = "closed"
              /\ pc' = IF pc = "exit" THEN "exit_stop" ELSE "leaving_stop"
              /\ UNCHANGED <<attempt, result, query_failed, captcha_count,
                             captcha_encountered, pages, failed_queries,
                             exc>>
         ELSE /\ browser' = browser
              /\ pc' = "raised"
              /\ exc' = [kind |-> AwaitException(a), from |-> "stop"]
              /\ DiscardLocals
    /\ UNCHANGED <<queries, max_pages, max_retries, qi, page_num,
                   scraper_result, playwright, calls_qi, calls_pn,
                   calls_query, calls_page, captcha_seen, open_pages,
                   max_open_pages>>
    /\ UNCHANGED <<dvars, pvars, avars>>

\* __aexit__ entered with an exception, stop() suspended in
\* `await self._playwright.stop()` (line 205) with the browser closed: when
\* it returns the exception goes on to the caller of the run; an exception
\* of stop() takes its place.
LeaveSession ==
    /\ pc = "leaving_stop"
    /\ \E a \in AwaitBehaviours :
         IF a = "returns"
         THEN playwright' = "closed" /\ exc' = exc
         ELSE /\ playwright' = playwright
              /\ exc' = [kind |-> AwaitException(a), from |-> "stop"]
    /\ pc' = "raised"
    /\ UNCHANGED <<queries, max_pages, max_retries, qi, page_num, attempt,
                   result, query_failed, captcha_count, captcha_encountered,
                   pages, failed_queries, scraper_result, browser, calls_qi,
                   calls_pn, calls_query, calls_page, captcha_seen,
                   open_pages, max_open_pages>>
    /\ UNCHANGED <<dvars, pvars, avars>>

\* ScraperResult(source=...): every other field at its default
EmptyScraperResult(source) ==
    [pages |-> <<>>, total_pages_scraped |-> 0, total_queries_run |-> 0,
     failed_queries |-> <<>>, captcha_encountered |-> FALSE,
     source |-> source]

CountSuccess(ps) == Cardinality({ i \in 1..Len(ps) : ps[i].success })

\* The body of `async with` has ended and stop() is suspended in
\* `await self._playwright.stop()` (line 205) with the browser closed: when
\* it returns, the return statement of lines 184-191 follows; when it
\* raises there is no return value.
ReturnResult ==
    /\ pc = "exit_stop"
    /\ \E a \in AwaitBehaviours :
         IF a = "returns"
         THEN /\ playwright' = "closed"
              /\ scraper_result' =
                   << [pages |-> pages,
                       total_pages_scraped |-> CountSuccess(pages),
                       total_queries_run |-> Len(queries),
                       failed_queries |-> failed_queries,
                       captcha_encountered |-> captcha_encountered,
                       source |-> "playwright"] >>
              /\ pc' = "done"
              /\ UNCHANGED <<attempt, result, query_failed, captcha_count,
                             captcha_encountered, pages, failed_queries,
                             exc>>
         ELSE /\ playwright' = playwright
              /\ scraper_result' = scraper_result
              /\ pc' = "raised"
              /\ exc' = [kind |-> AwaitException(a), from |-> "stop"]
              /\ DiscardLocals
    /\ UNCHANGED <<queries, max_pages, max_retries, qi, page_num, browser,
                   calls_qi, calls_pn, calls_query, calls_page, captcha_seen,
                   open_pages, max_open_pages>>
    /\ UNCHANGED <<dvars, pvars, avars>>

\* who called _run_playwright_scraper
BrowserEntryPoints == {"run_scraper", "scrape_linkedin_pages"}

\* An exception that left _run_playwright_scraper reaches its caller:
\* run_scraper has no handler and the exception reaches run_pipeline;
\* scrape_linkedin_pages catches an Exception and returns a ScraperResult
\* without pages that lists the keywords of every query as failed, and lets
\* a CancelledError by.
CallerHandles ==
    /\ pc = "raised"
    /\ \E caller \in BrowserEntryPoints :
         IF caller = "run_scraper" \/ exc.kind = "CancelledError"
         THEN /\ pc' = "propagated"
              /\ scraper_result' = scraper_result
         ELSE /\ pc' = "caught"
              /\ scraper_result' =
                   << [EmptyScraperResult("playwright") EXCEPT
                         !.failed_queries =
                            [i \in 1..Len(queries) |-> <<queries[i].keywords>>]] >>
    /\ UNCHANGED <<queries, max_pages, max_retries, qi, page_num, attempt,
                   result, query_failed, captcha_count, captcha_encountered,
                   pages, failed_queries, playwright, browser, calls_qi,
                   calls_pn, calls_query, calls_page, captcha_seen,
                   open_pages, max_open_pages, exc>>
    /\ UNCHANGED <<dvars, pvars, avars>>

(***************************************************************************)
(* tools/browser_tool.py, scrape_linkedin_jobs: the run of the same        *)
(* session that the module offers beside the orchestrator.  It keeps no    *)
(* query_failed flag, no failed_queries and no captcha_encountered; its    *)
(* list `results` is held in pages and its return value in scraper_result. *)
(***************************************************************************)
\* the dict appended at lines 370-376
ResultDict(q, pn, html) ==
    [url |-> build_linkedin_url(q.keywords, q.location, pn * JobsPerPage),
     html |-> html, query |-> q.keywords, location |-> q.location,
     page |-> pn + 1]

\* The rest of one iteration of the retry loop of lines 343-367, after
\* new_page(), up to its next suspension: fetch_page returns, the result is
\* handled, and the loop is left (lines 352, 359) or suspended in the sleep
\* of line 355, 364 or 367; or the close fails.
scrape_linkedin_jobs_attempt ==
    /\ pc = "in_fetch"
    /\ \/ CloseFails
       \/ \E b \in FetchBehaviours :
         LET r == fetch_page(b) IN
         /\ open_pages' = PageHandlesAfter(open_pages, "closes")
         /\ captcha_seen' = captcha_seen + (IF r.captcha THEN 1 ELSE 0)
         /\ result' = <<r>>
         /\ attempt' = attempt
         /\ pc' = IF Sleeps(r) THEN "retry_sleep" ELSE "resolve"
         /\ captcha_count' = captcha_count + (IF r.captcha THEN 1 ELSE 0)
         /\ UNCHANGED <<playwright, browser, pages, failed_queries, exc,
                        captcha_encountered, query_failed>>
    /\ UNCHANGED <<queries, max_pages, max_retries, qi, page_num,
                   scraper_result, calls_qi, calls_pn, calls_query,
                   calls_page, max_open_pages>>
    /\ UNCHANGED <<dvars, pvars, avars>>

\* The page loop's body after the retry loop (lines 369-387): a page that
\* was fetched is appended, and the page loop ends when _has_next_page says
\* so, else it is suspended in `await session.random_delay()`; a page that
\* was not fetched ends the page loop and leaves no record.
scrape_linkedin_jobs_page ==
    /\ pc = "resolve"
    /\ LET q == queries[qi] IN
       IF result # <<>> /\ result[1].success /\ result[1].html # {}
       THEN /\ pages' = Append(pages,
                               ResultDict(q, page_num, result[1].html))
            /\ IF ~_has_next_page(result[1].html, page_num + 1)
               THEN /\ NextQuery
                    /\ attempt' = 0 /\ result' = <<>>
               ELSE /\ pc' = "page_delay"
                    /\ UNCHANGED <<qi, page_num, query_failed,
                                   captcha_count, attempt, result>>
       ELSE /\ NextQuery
            /\ attempt' = 0 /\ result' = <<>>
            /\ pages' = pages
    /\ UNCHANGED <<captcha_encountered, failed_queries, playwright, browser,
                   exc>>
    /\ UNCHANGED <<queries, max_pages, max_retries, scraper_result,
                   calls_qi, calls_pn, calls_query, calls_page,
                   captcha_seen, open_pages, max_open_pages>>
    /\ UNCHANGED <<dvars, pvars, avars>>

\* The body of `async with` has ended and stop() is suspended in
\* `await self._playwright.stop()` with the browser closed: when it
\* returns, `return results` follows.
scrape_linkedin_jobs_return ==
    /\ pc = "exit_stop"
    /\ \E a \in AwaitBehaviours :
         IF a = "returns"
         THEN /\ playwright' = "closed"
              /\ scraper_result' = <<pages>>
              /\ pc' = "done"
              /\ UNCHANGED <<attempt, result, query_failed, captcha_count,
                             captcha_encountered, pages, failed_queries,
                             exc>>
         ELSE /\ playwright' = playwright
              /\ scraper_result' = scraper_result
              /\ pc' = "raised"
              /\ exc' = [kind |-> AwaitException(a), from |-> "stop"]
              /\ DiscardLocals
    /\ UNCHANGED <<queries, max_pages, max_retries, qi, page_num, browser,
                   calls_qi, calls_pn, calls_query, calls_page, captcha_seen,
                   open_pages, max_open_pages>>
    /\ UNCHANGED <<dvars, pvars, avars>>

(***************************************************************************)
(* tools/parser_tool.py, deduplicate_jobs                                  *)
(***************************************************************************)
\* str.lower()
LowerChar(c) ==
    IF c = "A" THEN "a" ELSE IF c = "Y" THEN "y"
    ELSE IF c = "Contract" THEN "contract"
    ELSE IF c = "Intern" THEN "intern"
    ELSE IF c = "Part-time" THEN "part-time"
    ELSE IF c = "Full-time" THEN "full-time"
    ELSE IF c = "Python" THEN "python"
    ELSE IF c = "Go" THEN "go"
    ELSE IF c = "India" THEN "india"
    ELSE IF c = "Unknown" THEN "unknown"
    ELSE c
Lower(str) == [i \in 1..Len(str) |-> LowerChar(str[i])]

\* str.strip()
RECURSIVE LStrip(_)
LStrip(str) ==
    IF str # <<>> /\ Head(str) \in Whitespace THEN LStrip(Tail(str)) ELSE str
RECURSIVE RStrip(_)
RStrip(str) ==
    IF str # <<>> /\ str[Len(str)] \in Whitespace
    THEN RStrip(SubSeq(str, 1, Len(str) - 1)) ELSE str
Strip(str) == RStrip(LStrip(str))

\* the truth value of an Optional[str]
Truthy(x) == x \notin {None, ""}

\* (x or "")
OrEmpty(k) == IF k = NoKey THEN <<>> ELSE k

\* key = (job.title.lower().strip(), job.company_name.lower().strip())
TitleCompanyKey(job) ==
    <<Strip(Lower(job.title)), Strip(Lower(job.company_name))>>

DedupStart ==
    [seen_ids |-> {}, seen_title_company |-> {}, unique |-> <<>>,
     dupe_count |-> 0]

\* a composite key compared as written, without lower() and strip()
DedupStep_RawKey(st, job) ==
    IF Truthy(job.job_id) /\ job.job_id \in st.seen_ids
    THEN [st EXCEPT !.dupe_count = @ + 1]
    ELSE IF <<job.title, job.company_name>> \in st.seen_title_company
    THEN [st EXCEPT !.dupe_count = @ + 1]
    ELSE [seen_ids |-> IF Truthy(job.job_id)
                       THEN st.seen_ids \cup {job.job_id} ELSE st.seen_ids,
          seen_title_company |->
              st.seen_title_company \cup {<<job.title, job.company_name>>},
          unique |-> Append(st.unique, job),
          dupe_count |-> st.dupe_count]

\* a composite-key duplicate that is counted and kept all the same
DedupStep_NoContinue(st, job) ==
    IF Truthy(job.job_id) /\ job.job_id \in st.seen_ids
    THEN [st EXCEPT !.dupe_count = @ + 1]
    ELSE [seen_ids |-> IF Truthy(job.job_id)
                       THEN st.seen_ids \cup {job.job_id} ELSE st.seen_ids,
          seen_title_company |->
              st.seen_title_company \cup {TitleCompanyKey(job)},
          unique |-> Append(st.unique, job),
          dupe_count |-> IF TitleCompanyKey(job) \in st.seen_title_company
                         THEN st.dupe_count + 1 ELSE st.dupe_count]

\* identifiers of dropped records remembered as seen
DedupStep_SeenDropped(st, job) ==
    IF Truthy(job.job_id) /\ job.job_id \in st.seen_ids
    THEN [st EXCEPT !.dupe_count = @ + 1]
    ELSE IF TitleCompanyKey(job) \in st.seen_title_company
    THEN [st EXCEPT !.dupe_count = @ + 1,
                    !.seen_ids = IF Truthy(job.job_id)
                                 THEN @ \cup {job.job_id} ELSE @]
    ELSE [seen_ids |-> IF Truthy(job.job_id)
                       THEN st.seen_ids \cup {job.job_id} ELSE st.seen_ids,
          seen_title_company |->
              st.seen_title_company \cup {TitleCompanyKey(job)},
          unique |-> Append(st.unique, job),
          dupe_count |-> st.dupe_count]

\* a record dropped only for its identifier
DedupStep_IdOnly(st, job) ==
    IF Truthy(job.job_id) /\ job.job_id \in st.seen_ids
    THEN [st EXCEPT !.dupe_count = @ + 1]
    ELSE [seen_ids |-> IF Truthy(job.job_id)
                       THEN st.seen_ids \cup {job.job_id} ELSE st.seen_ids,
          seen_title_company |->
              st.seen_title_company \cup {TitleCompanyKey(job)},
          unique |-> Append(st.unique, job),
          dupe_count |-> st.dupe_count]

\* the body of `for job in jobs`
DedupStep(st, job) ==
    IF Truthy(job.job_id) /\ job.job_id \in st.seen_ids
    THEN [st EXCEPT !.dupe_count = @ + 1]
    ELSE IF TitleCompanyKey(job) \in st.seen_title_company
    THEN [st EXCEPT !.dupe_count = @ + 1]
    ELSE [seen_ids |-> IF Truthy(job.job_id)
                       THEN st.seen_ids \cup {job.job_id} ELSE st.seen_ids,
          seen_title_company |->
              st.seen_title_company \cup {TitleCompanyKey(job)},
          unique |-> Append(st.unique, job),
          dupe_count |-> st.dupe_count]

RECURSIVE DedupLoop(_, _, _)
DedupLoop(js, i, st) ==
    IF i > Len(js) THEN st ELSE DedupLoop(js, i + 1, DedupStep(st, js[i]))

\* returns unique, dupe_count
deduplicate_jobs(js) ==
    LET st == DedupLoop(js, 1, DedupStart)
    IN  [unique |-> st.unique, dupe_count |-> st.dupe_count]

DedupInit ==
    /\ \E k \in 0..MaxJobs : \E f \in [1..k -> JobContents] : jobs = JobList(f)
    /\ unique = <<>> /\ dupe_count = 0
    /\ again = <<>> /\ permuted = <<>> /\ dpc = "input"

\* unique, dupe_count = deduplicate_jobs(jobs)
Deduplicate ==
    /\ dpc = "input"
    /\ unique' = deduplicate_jobs(jobs).unique
    /\ dupe_count' = deduplicate_jobs(jobs).dupe_count
    /\ dpc' = "deduped"
    /\ UNCHANGED <<jobs, again, permuted>>
    /\ UNCHANGED <<bvars, pvars, avars>>

\* deduplicate_jobs run on its own output
DeduplicateAgain ==
    /\ dpc = "deduped"
    /\ again' = <<deduplicate_jobs(unique)>>
    /\ dpc' = "again"
    /\ UNCHANGED <<jobs, unique, dupe_count, permuted>>
    /\ UNCHANGED <<bvars, pvars, avars>>

\* deduplicate_jobs run on the same records in another order
DeduplicatePermuted ==
    /\ dpc = "deduped"
    /\ \E f \in Permutations(1..Len(jobs)) :
         LET other == [i \in 1..Len(jobs) |-> jobs[f[i]]]
         IN  permuted' = <<[jobs |-> other,
                            unique |-> deduplicate_jobs(other).unique,
                            dupe_count |-> deduplicate_jobs(other).dupe_count]>>
    /\ dpc' = "permuted"
    /\ UNCHANGED <<jobs, unique, dupe_count, again>>
    /\ UNCHANGED <<bvars, pvars, avars>>

DedupIdle ==
    /\ jobs = <<>> /\ unique = <<>> /\ dupe_count = 0
    /\ again = <<>> /\ permuted = <<>> /\ dpc = "off"

(***************************************************************************)
(* tools/parser_tool.py, extraction                                        *)
(***************************************************************************)
\* re.sub(r"\s+", " ", text)
RECURSIVE CollapseWhitespace(_)
CollapseWhitespace(str) ==
    IF str = <<>> THEN <<>>
    ELSE IF Head(str) \in Whitespace
    THEN <<" ">> \o CollapseWhitespace(LStrip(str))
    ELSE <<Head(str)>> \o CollapseWhitespace(Tail(str))

_clean_text(text) == Strip(CollapseWhitespace(text))

\* `needle in text`, both sequences of pieces
In(needle, text) ==
    \E p \in 1..(Len(text) - Len(needle) + 1) :
        SubSeq(text, p, p + Len(needle) - 1) = needle

\* EmploymentType: the default of the field (job_schema.py) and what
\* _detect_employment_type returns
NOT_SPECIFIED == "Not Specified"

_detect_employment_type(text) ==
    LET text_lower == Lower(text)
    IN  IF In(<<"contract">>, text_lower)
           \/ In(<<"contractor">>, text_lower)
        THEN "Contract"
        ELSE IF In(<<"part-time">>, text_lower)
                \/ In(<<"part", " ", "time">>, text_lower)
        THEN "Part-time"
        ELSE IF In(<<"internship">>, text_lower)
                \/ In(<<"intern", " ">>, text_lower)
        THEN "Internship"
        ELSE "Full-time"

\* SKILL_PATTERNS: skill.lower() -> canonical name, for the skill names that
\* occur in the texts of the model, in sorted order of the canonical names
SKILL_PATTERNS == << <<"go", "Go">>, <<"python", "Python">> >>

\* re.search(r'\b' + skill + r'\b', text): the piece stands between blanks
\* or the ends of the text
WordAt(text, p) ==
    /\ (p = 1 \/ text[p - 1] \in Whitespace)
    /\ (p = Len(text) \/ text[p + 1] \in Whitespace)

RECURSIVE FoundSkills(_, _)
FoundSkills(text_lower, k) ==
    IF k > Len(SKILL_PATTERNS) THEN <<>>
    ELSE (IF \E p \in 1..Len(text_lower) :
                text_lower[p] = SKILL_PATTERNS[k][1] /\ WordAt(text_lower, p)
          THEN <<SKILL_PATTERNS[k][2]>> ELSE <<>>)
         \o FoundSkills(text_lower, k + 1)

\* sorted(found)
extract_skills(text) ==
    IF text = <<>> THEN <<>> ELSE FoundSkills(Lower(text), 1)

\* the fields of a JobPosting that extraction, skill backfill and
\* deduplication read or write; uid is the identity of the object, given
\* when it joins all_jobs; <<None>> is the job_description None
JobPosting(job_id, title, company_name, employment_type, skills, desc) ==
    [uid |-> 0, job_id |-> job_id, title |-> title,
     company_name |-> company_name, employment_type |-> employment_type,
     required_skills |-> skills, job_description |-> desc]

\* a or b or c or d over the four title lookups: the first tag found; a Tag
\* is true whatever its text
RECURSIVE FirstTag(_, _)
FirstTag(tags, k) ==
    IF k > Len(tags) THEN <<>>
    ELSE IF tags[k] # <<>> THEN tags[k] ELSE FirstTag(tags, k + 1)

\* Optional[JobPosting], or an exception: job is <<>> for None
_parse_job_card(card) ==
    LET title_tag == FirstTag(card.title_tags, 1)
        title == _clean_text(IF title_tag # <<>> THEN title_tag[1] ELSE <<>>)
    IN  IF title = <<>> THEN [raised |-> FALSE, job |-> <<>>]
        ELSE IF card.raises THEN [raised |-> TRUE, job |-> <<>>]
        ELSE [raised |-> FALSE,
              job |-> <<JobPosting(IF Truthy(card.job_id) THEN card.job_id
                                   ELSE None,
                                   title, _clean_text(card.company),
                                   _detect_employment_type(title),
                                   <<>>, <<None>>)>>]

\* Optional[JobPosting] of one JSON-LD object, or an exception: job is <<>>
\* for None. data.get raises on what is not an object; past the checks of
\* "@type" and "title", addr.get raises on an address that is a text,
\* ", ".join on a part that is not a text, and the + of line 351 on a
\* "jobLocationType" that is null or a list
_json_ld_to_job(data) ==
    IF ~data.is_dict THEN [raised |-> TRUE, job |-> <<>>]
    ELSE IF data.type # "JobPosting" THEN [raised |-> FALSE, job |-> <<>>]
    ELSE IF data.title = <<>> THEN [raised |-> FALSE, job |-> <<>>]
    ELSE IF data.address \in {"str", "nested"}
    THEN [raised |-> TRUE, job |-> <<>>]
    ELSE IF data.location_type \in {"null", "list"}
    THEN [raised |-> TRUE, job |-> <<>>]
    ELSE [raised |-> FALSE,
          job |-> <<JobPosting(None, data.title,
                               IF data.company # <<>> THEN data.company
                               ELSE <<"Unknown">>,
                               NOT_SPECIFIED, <<>>, <<None>>)>>]

\* the items of a list, up to the first whose mapping raises: the
\* exception ends the script, the records appended before it stay
RECURSIVE LdListJobs(_, _)
LdListJobs(data, i) ==
    IF i > Len(data) \/ _json_ld_to_job(data[i]).raised THEN <<>>
    ELSE _json_ld_to_job(data[i]).job \o LdListJobs(data, i + 1)

\* the body of the try: an exception of the mapping ends the script
LdScriptJobs(script) ==
    IF script.kind = "ld_list" THEN LdListJobs(script.ld, 1)
    ELSE IF script.kind = "ld_dict" /\ script.ld[1].type = "JobPosting"
    THEN _json_ld_to_job(script.ld[1]).job
    ELSE <<>>

IsLdScript(t) == t.kind \in {"ld_dict", "ld_list", "ld_bad"}

RECURSIVE LdScriptsJobs(_, _)
LdScriptsJobs(scripts, i) ==
    IF i > Len(scripts) THEN <<>>
    ELSE LdScriptJobs(scripts[i]) \o LdScriptsJobs(scripts, i + 1)

_parse_json_ld(html) == LdScriptsJobs(SelectSeq(html, IsLdScript), 1)

\* a card that raises ends the loop over the cards
RECURSIVE ParseCards_Abort(_, _)
ParseCards_Abort(cards, i) ==
    IF i > Len(cards) \/ _parse_job_card(cards[i]).raised THEN <<>>
    ELSE _parse_job_card(cards[i]).job \o ParseCards_Abort(cards, i + 1)

\* the loop over the cards, each in its own try/except
RECURSIVE ParseCards(_, _)
ParseCards(cards, i) ==
    IF i > Len(cards) THEN <<>>
    ELSE (IF _parse_job_card(cards[i]).raised THEN <<>>
          ELSE _parse_job_card(cards[i]).job)
         \o ParseCards(cards, i + 1)

\* soup.select(selector)
select(html, selector) ==
    LET Matches(t) == selector \in t.sel IN SelectSeq(html, Matches)

\* the selectors from the last to the first
RECURSIVE SelectCards_LastMatch(_, _)
SelectCards_LastMatch(html, k) ==
    IF k > Len(card_selectors) THEN <<>>
    ELSE IF SelectCards_LastMatch(html, k + 1) # <<>>
    THEN SelectCards_LastMatch(html, k + 1)
    ELSE select(html, card_selectors[k])

\* for selector in card_selectors: cards = soup.select(selector); if cards:
\* break
RECURSIVE SelectCards(_, _)
SelectCards(html, k) ==
    IF k > Len(card_selectors) THEN <<>>
    ELSE IF select(html, card_selectors[k]) # <<>>
    THEN select(html, card_selectors[k])
    ELSE SelectCards(html, k + 1)

parse_linkedin_job_cards(html) ==
    LET cards == SelectCards(html, 1)
    IN  IF cards = <<>> THEN _parse_json_ld(html) ELSE ParseCards(cards, 1)

\* json.loads: a JSON array is read back as the list of its records; an
\* array nested too deep raises RecursionError, any other text raises
\* JSONDecodeError
json_loads(text) ==
    IF Len(text) >= 2 /\ text[1] = OpenArray /\ text[Len(text)] = CloseArray
    THEN [ok |-> TRUE, error |-> "", data |-> SubSeq(text, 2, Len(text) - 1)]
    ELSE IF text # <<>> /\ text[1] = DeepArray
    THEN [ok |-> FALSE, error |-> "RecursionError", data |-> <<>>]
    ELSE [ok |-> FALSE, error |-> "JSONDecodeError", data |-> <<>>]

\* f"serpapi_{index}"
SynthesizedId(index) == "serpapi_" \o ToString(index)

\* Optional[JobPosting], or an exception: job is <<>> for None
_serpapi_item_to_job(item, index) ==
    LET title == _clean_text(item.title)
        loc_raw == <<"India">>
        combined_text ==
            title \o <<" ">> \o loc_raw \o <<" ">> \o item.desc \o <<" ">>
                  \o item.schedule
    IN  IF item.raises THEN [raised |-> TRUE, job |-> <<>>]
        ELSE IF title = <<>> THEN [raised |-> FALSE, job |-> <<>>]
        ELSE [raised |-> FALSE,
              job |-> <<JobPosting(
                          IF item.job_id = None THEN SynthesizedId(index)
                          ELSE item.job_id,
                          title, _clean_text(item.company),
                          _detect_employment_type(
                              IF item.schedule # <<>> THEN item.schedule
                              ELSE combined_text),
                          extract_skills(item.desc \o <<" ">> \o title),
                          IF item.desc # <<>> THEN item.desc
                          ELSE <<None>>)>>]

\* the loop over the records, each in its own try/except
RECURSIVE ParseItems(_, _)
ParseItems(jobs_data, i) ==
    IF i > Len(jobs_data) THEN <<>>
    ELSE (IF _serpapi_item_to_job(jobs_data[i], i - 1).raised THEN <<>>
          ELSE _serpapi_item_to_job(jobs_data[i], i - 1).job)
         \o ParseItems(jobs_data, i + 1)

\* the exception that parse_serpapi_json does not catch
parse_serpapi_json_raises(raw_json) ==
    json_loads(raw_json).error = "RecursionError"

parse_serpapi_json(raw_json) ==
    IF ~json_loads(raw_json).ok THEN <<>>
    ELSE ParseItems(json_loads(raw_json).data, 1)

(***************************************************************************)
(* pipeline/parser_agent.py                                                *)
(***************************************************************************)
\* page.html.startswith(SERPAPI_MARKER)
startswith_marker(html) == Len(html) >= 1 /\ html[1] = MarkerToken

\* how run_parser parses a page that is not skipped
Route_run_parser(page) ==
    IF startswith_marker(page.html) THEN "json" ELSE "markup"

\* how parse_job_pages parses a page that is not skipped
Route_parse_job_pages(page) == "markup"

\* " ".join(filter(None, [job.title, job.job_description or ""]))
TitleAndDescription(job) ==
    IF OrEmpty(job.job_description) = <<>> THEN job.title
    ELSE job.title \o <<" ">> \o job.job_description

\* a pass that computes the skills of every record anew
EnrichSkills_Always(pass, job) ==
    [job EXCEPT !.required_skills = extract_skills(job.title)]

\* what a skill backfill pass does to one record: the loops of run_parser
\* (lines 191-195), parse_job_pages (lines 51-57) and
\* enrich_jobs_with_skills (lines 102-108)
EnrichSkills(pass, job) ==
    IF pass = "run_parser"
    THEN IF job.required_skills = <<>>
         THEN [job EXCEPT !.required_skills =
                              extract_skills(TitleAndDescription(job))]
         ELSE job
    ELSE IF pass = "parse_job_pages"
    THEN IF OrEmpty(job.job_description) # <<>> /\ job.required_skills = <<>>
         THEN [job EXCEPT !.required_skills =
                              extract_skills(job.job_description)]
         ELSE IF job.required_skills = <<>>
         THEN [job EXCEPT !.required_skills = extract_skills(job.title)]
         ELSE job
    ELSE IF job.required_skills = <<>>
            /\ extract_skills(TitleAndDescription(job)) # <<>>
         THEN [job EXCEPT !.required_skills =
                              extract_skills(TitleAndDescription(job))]
         ELSE job

\* for job in jobs: ...
EnrichAll(pass, js) == [i \in 1..Len(js) |-> EnrichSkills(pass, js[i])]

\* all_jobs.extend(js)
Extend(all, js) ==
    all \o [i \in 1..Len(js) |-> [js[i] EXCEPT !.uid = Len(all) + i]]

\* what the pages handed to the parser hold: a failed page has no markup,
\* a successful page has a payload
ParsePages ==
    { [html |-> <<>>, success |-> FALSE, error_message |-> "rate_limited"] }
    \cup { [html |-> h, success |-> TRUE, error_message |-> None] :
             h \in ParsePayloads }

\* the pages of a scraper result that hold what f lists: one page per
\* query, in the order of the plan
ParsePageList(f) ==
    [i \in 1..Len(f) |->
        RawJobPage(AllQueries[i], 0, f[i].html, f[i].success,
                   f[i].error_message)]

\* one successful page with a payload that is examined on its own
ExtractPageList(html) == <<RawJobPage(AllQueries[1], 0, html, TRUE, None)>>

ParserIdle ==
    /\ entry_point = "none" /\ sr_pages = <<>> /\ page_i = 1
    /\ all_jobs = <<>> /\ total_failed = 0 /\ parsed_as = <<>>
    /\ pages_ok = 0 /\ batch = <<>> /\ ppc = "off"

ParserInit ==
    /\ entry_point \in EntryPoints
    /\ \E k \in 0..MaxParsePages :
          \E f \in [1..k -> ParsePages] : sr_pages = ParsePageList(f)
    /\ page_i = 1 /\ all_jobs = <<>> /\ total_failed = 0 /\ parsed_as = <<>>
    /\ pages_ok = 0 /\ batch = <<>> /\ ppc = "pages"

ExtractInit ==
    /\ entry_point \in EntryPoints
    /\ \E k \in 0..MaxCards :
          \/ \E f \in [1..k -> RichCards \cup RichScripts] :
                sr_pages = ExtractPageList(RichPayload(f))
          \/ \E f \in [1..k -> RichItems] :
                k > 0 /\ sr_pages = ExtractPageList(RichPayload(f))
    /\ page_i = 1 /\ all_jobs = <<>> /\ total_failed = 0 /\ parsed_as = <<>>
    /\ pages_ok = 0 /\ batch = <<>> /\ ppc = "pages"

\* the records of a page that is parsed as route says, before the skill
\* backfill
Extracted(route, html) ==
    IF route = "json" THEN parse_serpapi_json(Tail(html))
    ELSE parse_linkedin_job_cards(html)

\* the body of `for page in scraper_result.pages`, the page being parsed as
\* route says
TakePage(route) ==
    /\ ppc = "pages" /\ page_i <= Len(sr_pages)
    /\ LET page == sr_pages[page_i] IN
       IF ~page.success \/ page.html = <<>>
       THEN /\ total_failed' = total_failed + 1
            /\ all_jobs' = all_jobs
            /\ parsed_as' = Append(parsed_as, "skipped")
            /\ pages_ok' = pages_ok
       ELSE IF route = "json" /\ parse_serpapi_json_raises(Tail(page.html))
       THEN /\ total_failed' = total_failed + 1
            /\ all_jobs' = all_jobs
            /\ parsed_as' = Append(parsed_as, route)
            /\ pages_ok' = pages_ok
       ELSE /\ total_failed' = total_failed
            /\ all_jobs' =
                 Extend(all_jobs,
                        EnrichAll(entry_point, Extracted(route, page.html)))
            /\ parsed_as' = Append(parsed_as, route)
            /\ pages_ok' = pages_ok + 1
    /\ page_i' = page_i + 1
    /\ UNCHANGED <<entry_point, sr_pages, batch, ppc>>
    /\ UNCHANGED <<bvars, dvars, avars>>

\* run_parser, one page
run_parser_page ==
    /\ entry_point = "run_parser"
    /\ ppc = "pages" /\ page_i <= Len(sr_pages)
    /\ TakePage(Route_run_parser(sr_pages[page_i]))

\* parse_job_pages, one page
parse_job_pages_page ==
    /\ entry_point = "parse_job_pages"
    /\ ppc = "pages" /\ page_i <= Len(sr_pages)
    /\ TakePage(Route_parse_job_pages(sr_pages[page_i]))

\* a total_parsed that counts the duplicates too
ParsedJobBatch_CountsAll(unique_jobs, failed, dupes, npages) ==
    [jobs |-> unique_jobs, total_parsed |-> Len(unique_jobs) + dupes,
     total_failed |-> failed, duplicate_count |-> dupes,
     source_pages |-> npages]

\* the ParsedJobBatch that is returned
ParsedJobBatch(unique_jobs, failed, dupes, npages) ==
    [jobs |-> unique_jobs, total_parsed |-> Len(unique_jobs),
     total_failed |-> failed, duplicate_count |-> dupes,
     source_pages |-> npages]

\* after the loop: deduplicate_jobs(all_jobs) and the ParsedJobBatch
BuildBatch ==
    /\ ppc = "pages" /\ page_i > Len(sr_pages)
    /\ batch' = << ParsedJobBatch(deduplicate_jobs(all_jobs).unique,
                                  total_failed,
                                  deduplicate_jobs(all_jobs).dupe_count,
                                  Len(sr_pages)) >>
    /\ ppc' = "done"
    /\ UNCHANGED <<entry_point, sr_pages, page_i, all_jobs, total_failed,
                   parsed_as, pages_ok>>
    /\ UNCHANGED <<bvars, dvars, avars>>

\* the tool enrich_jobs_with_skills, run on the batch that was returned
enrich_jobs_with_skills ==
    /\ ppc = "done"
    /\ batch' = << [batch[1] EXCEPT
                      !.jobs = EnrichAll("enrich_jobs_with_skills", @)] >>
    /\ ppc' = "enriched"
    /\ UNCHANGED <<entry_point, sr_pages, page_i, all_jobs, total_failed,
                   parsed_as, pages_ok>>
    /\ UNCHANGED <<bvars, dvars, avars>>

(***************************************************************************)
(* pipeline/scraper_agent.py, run_scraper in API mode, scrape_via_serpapi  *)
(* and _run_serpapi_scraper                                                *)
(***************************************************************************)
_resolve_serpapi_key(cfg_key, environ_key) ==
    LET env == Strip(OrEmpty(environ_key))
        cfg == Strip(OrEmpty(cfg_key))
    IN  IF env # <<>> /\ env \notin _PLACEHOLDER_KEYS THEN env
        ELSE IF cfg # <<>> /\ cfg \notin _PLACEHOLDER_KEYS THEN cfg
        ELSE <<>>

\* a credential compared with the placeholders as it was given
KeyRejected_NoStrip(k) == OrEmpty(k) \in _PLACEHOLDER_KEYS

\* key = (api_key or "").strip(); key in _PLACEHOLDER_KEYS
KeyRejected(k) == Strip(OrEmpty(k)) \in _PLACEHOLDER_KEYS

\* a partial page stops pagination whether or not a token came with it
LastPage_AnyPartial(n, token) == n < FullPage

\* if not batch: break; if len(batch) < 10 and not next_page_token: break
LastPage(n, token) == n = 0 \/ (n < FullPage /\ token = "")

\* results.get("jobs_results", [])
ApiBatch(n) == [i \in 1..n |-> Token("item", "id1", <<"a">>, <<"x">>)]

\* the page of a query, not marked as successful
ApiRawJobPage_Unsuccessful(q, pn, html) ==
    [url |-> <<"serpapi://google_jobs/", q.keywords, "@", q.location>>,
     html |-> html, query |-> q.keywords, location |-> q.location,
     page_number |-> pn + 1, success |-> FALSE, error_message |-> None]

\* the RawJobPage of lines 314-321
ApiRawJobPage(q, pn, html) ==
    [url |-> <<"serpapi://google_jobs/", q.keywords, "@", q.location>>,
     html |-> html, query |-> q.keywords, location |-> q.location,
     page_number |-> pn + 1, success |-> TRUE, error_message |-> None]

\* the variables of the browser-mode run that an API-mode run leaves alone
ApiUnused == <<max_retries, attempt, result, query_failed, captcha_count,
               captcha_encountered, playwright, browser, calls_qi, calls_pn,
               calls_query, calls_page, captcha_seen, open_pages,
               max_open_pages, exc>>

ApiIdle ==
    /\ api_entry = "none" /\ config_key = NoKey /\ env_key = NoKey
    /\ api_key = NoKey /\ next_page_token = "" /\ query_jobs = <<>>
    /\ last_response = <<>> /\ requests_total = 0

\* run_scraper reads both credentials and the page limit of the config;
\* scrape_via_serpapi is given one credential and keeps the default limit
ApiInit ==
    /\ api_entry \in ApiEntryPoints
    /\ config_key \in ConfigKeys
    /\ env_key \in (IF api_entry = "run_scraper" THEN EnvKeys ELSE {NoKey})
    /\ queries \in QueryLists
    /\ max_pages \in (IF api_entry = "run_scraper"
                      THEN 1..MaxPagesBound ELSE {1})
    /\ pc = "resolve_key"
    /\ api_key = NoKey /\ next_page_token = "" /\ query_jobs = <<>>
    /\ last_response = <<>> /\ requests_total = 0
    /\ qi = 1 /\ page_num = 0 /\ pages = <<>> /\ failed_queries = <<>>
    /\ scraper_result = <<>>
    /\ max_retries = 1 /\ attempt = 0 /\ result = <<>>
    /\ query_failed = FALSE /\ captcha_count = 0
    /\ captcha_encountered = FALSE /\ playwright = "none" /\ browser = "none"
    /\ calls_qi = 0 /\ calls_pn = 0 /\ calls_query = 0 /\ calls_page = 0
    /\ captcha_seen = 0 /\ open_pages = 0 /\ max_open_pages = 0
    /\ exc = NoException

\* run_scraper, lines 423-432, or the call of line 81
ResolveKey ==
    /\ pc = "resolve_key"
    /\ api_key' = IF api_entry = "run_scraper"
                  THEN _resolve_serpapi_key(config_key, env_key)
                  ELSE config_key
    /\ pc' = "validate"
    /\ UNCHANGED <<queries, max_pages, qi, page_num, pages, failed_queries,
                   scraper_result, ApiUnused>>
    /\ UNCHANGED <<api_entry, config_key, env_key, next_page_token,
                   query_jobs, last_response, requests_total>>
    /\ UNCHANGED <<dvars, pvars>>

\* _run_serpapi_scraper, lines 223-247: the credential and the import
ValidateKey ==
    /\ pc = "validate"
    /\ \E imp \in ImportBehaviours :
         IF KeyRejected(api_key) \/ imp = "ImportError"
         THEN /\ scraper_result' = <<EmptyScraperResult("serpapi")>>
              /\ pc' = "done"
         ELSE /\ scraper_result' = scraper_result
              /\ pc' = IF Len(queries) = 0 THEN "exit" ELSE "request"
    /\ UNCHANGED <<queries, max_pages, qi, page_num, pages, failed_queries,
                   ApiUnused>>
    /\ UNCHANGED avars
    /\ UNCHANGED <<dvars, pvars>>

\* One iteration of `while page_num < max_pages_per_query`: the request and
\* the handling of its outcome.
ApiRequest ==
    /\ pc = "request"
    /\ \E r \in ApiResponses :
         /\ requests_total' = requests_total + 1
         /\ last_response' = <<r>>
         /\ IF r.kind = "raises"
            THEN /\ pc' = "end_query"
                 /\ UNCHANGED <<failed_queries, query_jobs, next_page_token,
                                page_num>>
            ELSE IF r.kind = "error"
            THEN /\ failed_queries' =
                      IF page_num = 0
                      THEN Append(failed_queries, FailedKey(queries[qi]))
                      ELSE failed_queries
                 /\ pc' = "end_query"
                 /\ UNCHANGED <<query_jobs, next_page_token, page_num>>
            ELSE /\ query_jobs' = query_jobs \o ApiBatch(r.n)
                 /\ next_page_token' = r.token
                 /\ failed_queries' = failed_queries
                 /\ IF LastPage(r.n, r.token)
                    THEN pc' = "end_query" /\ page_num' = page_num
                    ELSE /\ page_num' = page_num + 1
                         /\ pc' = IF page_num + 1 < max_pages
                                  THEN "request" ELSE "end_query"
    /\ UNCHANGED <<queries, max_pages, qi, pages, scraper_result, ApiUnused>>
    /\ UNCHANGED <<api_entry, config_key, env_key, api_key>>
    /\ UNCHANGED <<dvars, pvars>>

\* After the while loop (lines 312-331): the page of the query, and the
\* next query.
EndQuery ==
    /\ pc = "end_query"
    /\ pages' = IF query_jobs # <<>>
                THEN Append(pages,
                            ApiRawJobPage(queries[qi], page_num,
                                <<MarkerToken>> \o json_dumps(query_jobs)))
                ELSE pages
    /\ qi' = qi + 1
    /\ page_num' = 0
    /\ next_page_token' = ""
    /\ query_jobs' = <<>>
    /\ last_response' = <<>>
    /\ pc' = IF qi + 1 <= Len(queries) THEN "request" ELSE "exit"
    /\ UNCHANGED <<queries, max_pages, failed_queries, scraper_result,
                   ApiUnused>>
    /\ UNCHANGED <<api_entry, config_key, env_key, api_key, requests_total>>
    /\ UNCHANGED <<dvars, pvars>>

\* the return statement of lines 335-341
ApiReturn ==
    /\ pc = "exit"
    /\ scraper_result' =
         << [pages |-> pages,
             total_pages_scraped |-> Len(pages),
             total_queries_run |-> Len(queries),
             failed_queries |-> failed_queries,
             captcha_encountered |-> FALSE,
             source |-> "serpapi"] >>
    /\ pc' = "done"
    /\ UNCHANGED <<queries, max_pages, qi, page_num, pages, failed_queries,
                   ApiUnused>>
    /\ UNCHANGED avars
    /\ UNCHANGED <<dvars, pvars>>

Init == BrowserInit /\ DedupIdle /\ ParserIdle /\ ApiIdle

Next ==
    \/ StartPlaywright \/ LaunchBrowser \/ OpenContext \/ ApplyStealth
    \/ CallFetchPage \/ StopSignal \/ FetchAttempt \/ RetrySleep
    \/ ResolvePage \/ PageDelay \/ StopBrowser \/ LeaveSession
    \/ ReturnResult \/ CallerHandles

Spec == Init /\ [][Next]_vars

\* a run of scrape_linkedin_jobs over the same inputs
NextJobs ==
    \/ StartPlaywright \/ LaunchBrowser \/ OpenContext \/ ApplyStealth
    \/ CallFetchPage \/ StopSignal
    \/ scrape_linkedin_jobs_attempt \/ RetrySleep
    \/ scrape_linkedin_jobs_page \/ PageDelay
    \/ StopBrowser \/ LeaveSession \/ scrape_linkedin_jobs_return

SpecJobs == Init /\ [][NextJobs]_vars

\* the deduplicator on its own
InitDedup == BrowserIdle /\ DedupInit /\ ParserIdle /\ ApiIdle

NextDedup == Deduplicate \/ DeduplicateAgain \/ DeduplicatePermuted

SpecDedup == InitDedup /\ [][NextDedup]_vars

\* extraction and deduplication over the pages of a scraper result
InitParser == BrowserIdle /\ DedupIdle /\ ParserInit /\ ApiIdle

NextParser ==
    run_parser_page \/ parse_job_pages_page \/ BuildBatch
    \/ enrich_jobs_with_skills

SpecParser == InitParser /\ [][NextParser]_vars

\* extraction, skill backfill and deduplication over one page, for every
\* payload of up to MaxCards cards and scripts or provider records
InitExtract == BrowserIdle /\ DedupIdle /\ ExtractInit /\ ApiIdle

SpecExtract == InitExtract /\ [][NextParser]_vars

\* an API-mode run
InitApi == ApiInit /\ DedupIdle /\ ParserIdle

NextApi == ResolveKey \/ ValidateKey \/ ApiRequest \/ EndQuery \/ ApiReturn

SpecApi == InitApi /\ [][NextApi]_vars

(***************************************************************************)
(* Properties of the browser-mode run.                                     *)
(***************************************************************************)
\* the RawJobPages recorded for page pn (1-based) of queries[k]
PagesOf(k, pn) ==
    { i \in 1..Len(pages) :
        /\ pages[i].query = queries[k].keywords
        /\ pages[i].location = queries[k].location
        /\ pages[i].page_number = pn }

\* the query loop has left queries[k]
QueryEnded(k) == qi > k

\* every fetch_page call made for queries[calls_qi] returned Captcha
OnlyCaptcha == calls_qi > 0 /\ captcha_seen = calls_query

\* the session's teardown raised (or was cancelled), and the locals of the
\* run are gone
TeardownRaised == exc.from = "stop"

\* the run has gone on to the query after queries[calls_qi], if there is
\* one, and no exception has left it
WentOn ==
    /\ exc = NoException
    /\ qi = calls_qi + 1
    /\ (calls_qi < Len(queries) => pc = "fetch")
    /\ (calls_qi = Len(queries) => pc \in {"exit", "exit_stop", "done"})

\* C1 as stated: for every max_retries >= 1, a query whose every fetch
\* returns Captcha gets exactly 2 fetch attempts, is added to failed_queries,
\* and the run goes on to the next query without raising (a teardown that
\* raises after the last query is not the query's doing).
C1_TwoCaptchasAnyN ==
    (OnlyCaptcha /\ QueryEnded(calls_qi) /\ ~TeardownRaised) =>
        /\ calls_query = 2
        /\ FailedKey(queries[calls_qi]) \in Range(failed_queries)
        /\ WentOn

\* C1 amended: the same for every max_retries >= 2, where attempts may be
\* left over after the second Captcha; with max_retries = 1 the one attempt
\* is used up at the first Captcha: one fetch is made, one failed RawJobPage
\* is recorded for the page, the query is not added to failed_queries, and
\* the run goes on all the same.
C1_TwoCaptchasFromTwoAttempts ==
    /\ (max_retries >= 2 /\ OnlyCaptcha /\ QueryEnded(calls_qi)
        /\ ~TeardownRaised) =>
           /\ calls_query = 2
           /\ FailedKey(queries[calls_qi]) \in Range(failed_queries)
           /\ WentOn
    /\ (max_retries = 1 /\ OnlyCaptcha /\ QueryEnded(calls_qi)
        /\ ~TeardownRaised) =>
           /\ calls_query = 1
           /\ failed_queries = <<>>
           /\ Cardinality(PagesOf(calls_qi, calls_pn)) = 1
           /\ \A i \in PagesOf(calls_qi, calls_pn) :
                 ~pages[i].success /\ i = Len(pages)
           /\ WentOn

\* C1 witness: with three attempts allowed per page, the first of two
\* queries got two Captchas and no third fetch, is listed as failed, and
\* the run stands at the first fetch of the second query.
C1_Witness ==
    /\ max_retries = 3 /\ Len(queries) = 2
    /\ calls_qi = 1 /\ calls_query = 2 /\ captcha_seen = 2
    /\ qi = 2 /\ pc = "fetch"
    /\ failed_queries = <<FailedKey(queries[1])>>

\* C1 witness of the single attempt: with one attempt allowed, the first of
\* two queries got one Captcha, its page is recorded as failed, no query is
\* listed as failed, and the run stands at the first fetch of the second
\* query.
C1_WitnessOneAttempt ==
    /\ max_retries = 1 /\ Len(queries) = 2
    /\ calls_qi = 1 /\ calls_query = 1 /\ captcha_seen = 1
    /\ qi = 2 /\ pc = "fetch"
    /\ Len(pages) = 1 /\ ~pages[1].success /\ failed_queries = <<>>

\* C2: captcha_count is the number of Captcha outcomes of the current query
\* over all its pages and attempts, zero for a new query; at the second
\* Captcha the query gets no further fetch and is added to failed_queries,
\* and the queries after it are still taken up.
C2_CaptchaCounterPerQuery ==
    /\ (pc \in {"fetch", "in_fetch", "retry_sleep", "resolve", "page_delay"} =>
          captcha_count = (IF calls_qi = qi THEN captcha_seen ELSE 0))
    /\ captcha_seen <= 2
    /\ ((captcha_seen = 2 /\ calls_qi = qi) =>
          (pc = "resolve" /\ query_failed /\ result[1].captcha))
    /\ ((captcha_seen = 2 /\ QueryEnded(calls_qi) /\ ~TeardownRaised) =>
          /\ FailedKey(queries[calls_qi]) \in Range(failed_queries)
          /\ WentOn)
    /\ (pc = "done" => qi = Len(queries) + 1)

\* C2 witness: the two Captchas of the first query came on different pages
\* (page 1 was fetched and recorded in between), the query is listed as
\* failed and the second query starts with a counter of zero.
C2_Witness ==
    /\ Len(queries) = 2 /\ calls_qi = 1 /\ calls_pn = 2 /\ captcha_seen = 2
    /\ calls_page = 1
    /\ Len(pages) = 1 /\ pages[1].success
    /\ qi = 2 /\ pc = "fetch" /\ captcha_count = 0
    /\ failed_queries = <<FailedKey(queries[1])>>

\* C3: when the attempts of a page are used up without Success and the
\* query was not aborted for CAPTCHA, all max_retries attempts were made,
\* exactly one failed RawJobPage is recorded for the page, the query is not
\* listed as failed, and the run goes on with the next query.
C3_ExhaustedPageRecordedOnce ==
    [][ (pc = "resolve" /\ ~query_failed /\ ~result[1].success) =>
          /\ calls_page = max_retries
          /\ pages' = Append(pages,
                        RawJobPage(queries[qi], page_num, {}, FALSE,
                                   result[1].error))
          /\ Cardinality({ i \in 1..Len(pages') :
                 /\ pages'[i].query = queries[qi].keywords
                 /\ pages'[i].location = queries[qi].location
                 /\ pages'[i].page_number = page_num + 1 }) = 1
          /\ failed_queries' = failed_queries
          /\ qi' = qi + 1
          /\ pc' = (IF qi < Len(queries) THEN "fetch" ELSE "exit") ]_vars

\* C3 witness: both attempts of page 2 of the first query failed softly,
\* page 1 is already collected, and a second query remains.
C3_Witness ==
    /\ pc = "resolve" /\ ~query_failed /\ ~result[1].success
    /\ max_retries = 2 /\ calls_page = 2 /\ captcha_seen = 0
    /\ qi = 1 /\ page_num = 1 /\ Len(queries) = 2
    /\ Len(pages) = 1 /\ pages[1].success

\* C4 as stated: no failure of a single page fetch (in the navigation or in
\* opening the page handle) leaves the run as an exception, and the result
\* returned holds every RawJobPage accumulated.
C4_FetchFailureNeverAborts ==
    /\ ~(exc.kind = "Exception" /\ exc.from \in {"new_page", "fetch_page"})
    /\ (pc = "done" => scraper_result[1].pages = pages)

\* C5 as stated: one RawJobPage for every (query, page) that was fetched at
\* least once, and every failed RawJobPage has an empty payload and a
\* non-empty reason.
C5_OnePagePerFetchedPair ==
    /\ \A i \in 1..Len(pages) :
         ~pages[i].success =>
            (pages[i].html = {} /\ pages[i].error_message \notin {None, ""})
    /\ ((calls_qi > 0 /\ QueryEnded(calls_qi)) =>
          Cardinality(PagesOf(calls_qi, calls_pn)) = 1)

\* a fetch_page call is made in this step
FetchStep == calls_query' # calls_query \/ calls_qi' # calls_qi

\* queries[k] has stopped on a failed page or on repeated CAPTCHA
Stopped(k) ==
    \/ FailedKey(queries[k]) \in Range(failed_queries)
    \/ \E i \in 1..Len(pages) :
         /\ pages[i].query = queries[k].keywords
         /\ pages[i].location = queries[k].location
         /\ ~pages[i].success

\* C6: within a query every fetch is for the page of the previous fetch or
\* for the next one, a new query starts at page 1, and no fetch is made for
\* a query that has stopped on exhausted retries or repeated CAPTCHA.
C6_PagesInOrder ==
    [][ FetchStep =>
          /\ calls_qi' = qi /\ calls_pn' = page_num + 1
          /\ calls_qi' >= calls_qi
          /\ (calls_qi' = calls_qi => calls_pn' \in {calls_pn, calls_pn + 1})
          /\ (calls_qi' # calls_qi => calls_pn' = 1)
          /\ ~Stopped(calls_qi') ]_vars

\* C6 witness: the first query stopped on the failed page 1 while two pages
\* were allowed, and the fetches now go to the second query.
C6_Witness ==
    /\ max_pages = 2 /\ Len(queries) = 2
    /\ Len(pages) = 1 /\ ~pages[1].success /\ pages[1].page_number = 1
    /\ pages[1].location = queries[1].location
    /\ calls_qi = 2 /\ calls_pn = 1

\* C7 as stated: after a successfully fetched page that shows no more
\* results, no later page of that query is fetched.
C7_StopsWhenNoMorePages ==
    \A i \in 1..Len(pages) :
        (/\ pages[i].success
         /\ ~_has_next_page(pages[i].html, pages[i].page_number)
         /\ calls_qi > 0
         /\ pages[i].query = queries[calls_qi].keywords
         /\ pages[i].location = queries[calls_qi].location)
        => calls_pn <= pages[i].page_number

\* C8 as stated: in the result, every query without a successfully fetched
\* page is in failed_queries.
C8_NoUsablePageMeansFailed ==
    pc = "done" =>
        \A k \in 1..Len(queries) :
            (~\E i \in 1..Len(pages) :
                  /\ pages[i].query = queries[k].keywords
                  /\ pages[i].location = queries[k].location
                  /\ pages[i].success)
            => FailedKey(queries[k]) \in Range(scraper_result[1].failed_queries)

(***************************************************************************)
(* Properties of the deduplicator.                                         *)
(***************************************************************************)
\* C9: deduplicate_jobs applied to the unique list it returned gives that
\* list back, same records in the same order, with a duplicate count of 0.
C9_DedupIdempotent ==
    again # <<>> => (again[1].unique = unique /\ again[1].dupe_count = 0)

\* C9 witness: the first run removed a duplicate and kept two records, and
\* the second run was made on its output.
C9_Witness ==
    /\ again # <<>> /\ dupe_count > 0 /\ Len(unique) >= 2

KeySet(js) == { TitleCompanyKey(js[i]) : i \in 1..Len(js) }

\* two records are the same posting by identifier or by composite key
SamePosting(a, b) ==
    \/ (Truthy(a.job_id) /\ a.job_id = b.job_id)
    \/ TitleCompanyKey(a) = TitleCompanyKey(b)

SameIdentities(us, vs) ==
    /\ \A u \in Range(us) : \E v \in Range(vs) : SamePosting(u, v)
    /\ \A v \in Range(vs) : \E u \in Range(us) : SamePosting(u, v)

\* every record of us is the first record of js with its composite key
FirstOfKey(js, us) ==
    \A i \in 1..Len(js) :
        js[i] \in Range(us) =>
            \A j \in 1..(i - 1) :
                TitleCompanyKey(js[j]) # TitleCompanyKey(js[i])

\* records that share a non-empty identifier share the composite key
IdConsistent(js) ==
    \A i, j \in 1..Len(js) :
        (Truthy(js[i].job_id) /\ js[i].job_id = js[j].job_id)
        => TitleCompanyKey(js[i]) = TitleCompanyKey(js[j])

\* C10 as stated: for every list and every permutation of it the same
\* identities survive and the same number of duplicates is removed.
C10_OrderIndependentAnyList ==
    permuted # <<>> =>
        /\ SameIdentities(unique, permuted[1].unique)
        /\ dupe_count = permuted[1].dupe_count

\* C10 amended: for every list in which records sharing a non-empty
\* identifier also share the composite key, and every permutation of it,
\* the same composite keys survive and the same number of duplicates is
\* removed, each survivor being the first record with its composite key in
\* the order given.
C10_OrderIndependentConsistentIds ==
    (permuted # <<>> /\ IdConsistent(jobs)) =>
        /\ KeySet(unique) = KeySet(permuted[1].unique)
        /\ SameIdentities(unique, permuted[1].unique)
        /\ dupe_count = permuted[1].dupe_count
        /\ FirstOfKey(jobs, unique)
        /\ FirstOfKey(permuted[1].jobs, permuted[1].unique)

\* C10 witness: a list with consistent identifiers, a duplicate removed,
\* and a permutation under which another physical record survives.
C10_Witness ==
    /\ permuted # <<>> /\ IdConsistent(jobs)
    /\ dupe_count > 0 /\ Len(unique) >= 2
    /\ \E i \in 1..Len(jobs) : Truthy(jobs[i].job_id)
    /\ Range(permuted[1].unique) # Range(unique)

\* jobs[i] was dropped by the run
Dropped(i) == jobs[i] \notin Range(unique)

\* C11: in the list returned by deduplicate_jobs no two records share a
\* non-empty identifier and no two share the lowercased and trimmed
\* (title, company) key; every dropped record shares its identifier or its
\* key with a record kept earlier in the input order; the kept records are
\* counted apart from the dropped ones.
C11_TwoStageFirstSeen ==
    dpc # "input" =>
        /\ \A i, j \in 1..Len(unique) :
              i # j =>
                 /\ ~(Truthy(unique[i].job_id)
                      /\ unique[i].job_id = unique[j].job_id)
                 /\ TitleCompanyKey(unique[i]) # TitleCompanyKey(unique[j])
        /\ \A i \in 1..Len(jobs) :
              Dropped(i) =>
                 \E j \in 1..(i - 1) :
                     ~Dropped(j) /\ SamePosting(jobs[j], jobs[i])
        /\ Range(unique) \subseteq Range(jobs)
        /\ Len(unique) + dupe_count = Len(jobs)

\* C11 witness: of three records the second is dropped for the composite
\* key of the first and the third for the identifier of the first, under
\* another composite key.
C11_Witness ==
    /\ dpc = "deduped" /\ Len(jobs) = 3 /\ Len(unique) = 1 /\ dupe_count = 2
    /\ jobs[2].job_id # jobs[1].job_id
    /\ TitleCompanyKey(jobs[2]) = TitleCompanyKey(jobs[1])
    /\ Truthy(jobs[3].job_id) /\ jobs[3].job_id = jobs[1].job_id
    /\ TitleCompanyKey(jobs[3]) # TitleCompanyKey(jobs[1])

(***************************************************************************)
(* Properties of extraction followed by deduplication.                     *)
(***************************************************************************)
\* every record carries a non-empty identifier, no two the same one
DistinctIds(js) ==
    \A i, j \in 1..Len(js) :
        /\ Truthy(js[i].job_id)
        /\ (i # j => js[i].job_id # js[j].job_id)

\* C12: when the records extracted from the pages carry non-empty
\* identifiers that all differ, the records with the same lowercased and
\* trimmed (title, company) collapse to the first one extracted, each later
\* one adding 1 to duplicate_count: the batch holds one record per composite
\* key, the first in page order, and duplicate_count is the number of the
\* others.
C12_CompositeCollapseAcrossPages ==
    (ppc = "done" /\ DistinctIds(all_jobs)) =>
        /\ \A i \in 1..Len(all_jobs) :
              all_jobs[i] \in Range(batch[1].jobs) <=>
                 \A j \in 1..(i - 1) :
                     TitleCompanyKey(all_jobs[j]) # TitleCompanyKey(all_jobs[i])
        /\ batch[1].total_parsed = Cardinality(KeySet(all_jobs))
        /\ batch[1].duplicate_count =
              Len(all_jobs) - Cardinality(KeySet(all_jobs))

\* C12 witness: run_parser over three markup pages with one card each; the
\* cards carry three identifiers, the first and the third have the same
\* title and company up to case and blanks; the batch holds 2 records and
\* counts 1 duplicate.
C12_Witness ==
    /\ ppc = "done" /\ entry_point = "run_parser"
    /\ Len(sr_pages) = 3 /\ parsed_as = <<"markup", "markup", "markup">>
    /\ Len(all_jobs) = 3 /\ DistinctIds(all_jobs)
    /\ sr_pages[1].html[1].title # sr_pages[3].html[1].title
    /\ TitleCompanyKey(all_jobs[1]) = TitleCompanyKey(all_jobs[3])
    /\ TitleCompanyKey(all_jobs[1]) # TitleCompanyKey(all_jobs[2])
    /\ batch[1].jobs = <<all_jobs[1], all_jobs[2]>>
    /\ batch[1].total_parsed = 2 /\ batch[1].duplicate_count = 1

\* C14 as stated: whichever entry point is run, a page that is not skipped
\* is parsed as a JSON array of provider records exactly when its payload
\* starts with the marker, and as markup otherwise.
C14_MarkerRouting ==
    \A i \in 1..Len(parsed_as) :
        parsed_as[i] # "skipped" =>
            (parsed_as[i] = "json" <=> startswith_marker(sr_pages[i].html))

(***************************************************************************)
(* Properties of the API-mode run.                                         *)
(***************************************************************************)
\* the outcome is a response after which the query gets no further request:
\* an explicit provider error, zero results, or fewer than a full page (10)
\* of results and no continuation token
StopsPagination(r) ==
    \/ r.kind = "error"
    \/ r.kind = "results" /\ (r.n = 0 \/ (r.n < 10 /\ r.token = ""))

\* C13: a further request for the same query is issued only after a
\* response that is none of these and within the per-query page limit; and
\* after any other response the query ends only at the page limit.
C13_ApiPaginationStops ==
    /\ (pc = "request" /\ last_response # <<>>) =>
          (~StopsPagination(last_response[1]) /\ page_num < max_pages)
    /\ (pc = "end_query" /\ last_response # <<>>
        /\ last_response[1].kind # "raises") =>
          (StopsPagination(last_response[1]) \/ page_num = max_pages)

\* C13 witness: the first query was paged up to its limit of 2 on full
\* pages; the second query gets a partial page without a token as its first
\* response and ends below the limit.
C13_Witness ==
    /\ pc = "end_query" /\ max_pages = 2 /\ qi = 2 /\ page_num = 0
    /\ last_response = <<[kind |-> "results", err |-> "", n |-> 3,
                          token |-> ""]>>
    /\ Len(query_jobs) = 3
    /\ requests_total = 3
    /\ Len(pages) = 1 /\ Len(pages[1].html) = 3 + 2 * FullPage

\* a credential that is neither absent nor a placeholder once trimmed
Usable(k) == Strip(OrEmpty(k)) \notin _PLACEHOLDER_KEYS

\* neither the environment nor the config gives a usable credential
NoCredential ==
    api_entry # "none" /\ ~Usable(env_key) /\ ~Usable(config_key)

\* C15: in an API-mode run without a usable credential no provider request
\* is ever issued, whatever the query list, and the run ends before its
\* query loop.
C15_NoRequestWithoutCredential ==
    NoCredential =>
        (requests_total = 0 /\ pc \in {"resolve_key", "validate", "done"})

\* C15 witness: a run over two queries has ended without a request; the
\* environment holds a placeholder after blanks and the config a
\* placeholder before blanks.
C15_Witness ==
    /\ pc = "done" /\ Len(queries) = 2 /\ requests_total = 0
    /\ env_key = <<" ", "xxxx">>
    /\ config_key = <<"PASTE_YOUR_SERPAPI_KEY_HERE", " ">>

\* C16 as stated: an API-mode run without a usable credential produces no
\* result object.
C16_NoResultWithoutCredential ==
    NoCredential => scraper_result = <<>>

(***************************************************************************)
(* Properties of the browser-mode run: failure of the whole run, teardown, *)
(* page handles and the retry bounds.                                      *)
(***************************************************************************)
\* C17 as stated: when the adapter invocation fails as a whole (an
\* Exception leaves it), the caller of the orchestrator entry point is
\* handed a result with zero pages and no exception.
C17_AdapterFailureGivesZeroPages ==
    (pc \in {"propagated", "caught"} /\ exc.kind = "Exception") =>
        (pc = "caught" /\ scraper_result # <<>>
         /\ scraper_result[1].pages = <<>>)

\* C18 as stated: on every exit of the run, with a result or with an
\* exception, no browser and no automation engine that was started is
\* left open.
C18_SessionClosedOnExit ==
    pc \in {"done", "raised", "propagated", "caught"} =>
        (browser # "open" /\ playwright # "open")

\* C19 as stated: whenever fetch_page has returned or raised, the page
\* handle it opened is closed, so a session that has started has no open
\* page handle outside the fetch_page calls, and never more than one.
C19_PageHandleReleased ==
    /\ open_pages <= 1
    /\ max_open_pages <= 1
    /\ ((pc \notin {"start_stealth", "in_fetch"} /\ exc.from # "start") =>
          open_pages = 0)

\* the fetch_page calls made so far are at most this many
FetchRank ==
    IF calls_qi = 0 THEN 0
    ELSE ((calls_qi - 1) * max_pages + (calls_pn - 1)) * max_retries
         + calls_page

\* the position of the run, growing with every step it takes
RunRank ==
    LET slots == 3 * max_retries + 2
        width == (Len(queries) + 1) * max_pages * slots + 1
        phase == CASE pc = "start" -> 0
                   [] pc = "start_launch" -> 1
                   [] pc = "start_context" -> 2
                   [] pc = "start_stealth" -> 3
                   [] pc \in {"fetch", "in_fetch", "retry_sleep", "resolve",
                              "page_delay"} -> 4
                   [] pc \in {"exit", "leaving"} -> 5
                   [] pc \in {"exit_stop", "leaving_stop"} -> 6
                   [] pc \in {"done", "raised"} -> 7
                   [] OTHER -> 8
        place == ((qi - 1) * max_pages + page_num) * slots
                 + (CASE pc = "resolve" -> 3 * max_retries
                      [] pc = "page_delay" -> 3 * max_retries + 1
                      [] pc = "in_fetch" -> 3 * attempt + 1
                      [] pc = "retry_sleep" -> 3 * attempt + 2
                      [] OTHER -> 3 * attempt)
    IN  phase * width + place

C20_Bounds ==
    /\ calls_page <= max_retries
    /\ calls_pn <= max_pages
    /\ calls_qi <= Len(queries)
    /\ FetchRank <= Len(queries) * max_pages * max_retries
    /\ ((pc \in {"fetch", "in_fetch", "retry_sleep"} /\ result # <<>>) =>
          ~result[1].success)
    /\ ((result # <<>> /\ result[1].success) =>
          pc \in {"resolve", "page_delay"})

C20_Progress ==
    /\ (FetchStep => FetchRank' > FetchRank)
    /\ RunRank' > RunRank

\* C20: whatever the adapter does, a page gets at most max_retries
\* fetch_page calls and a query at most max_pages pages; after a Success no
\* further attempt is made for the page; every call raises the count of
\* calls, which stays within |queries| x max_pages x max_retries; and every
\* step of the run moves it forward in a bounded order, so the run ends.
C20_BoundedRetry ==
    []C20_Bounds /\ [][C20_Progress]_vars

\* C20 witness: with 2 queries, 2 pages and 2 attempts the run has ended
\* after 8 calls: every page succeeded at its second attempt.
C20_Witness ==
    /\ pc = "done" /\ Len(queries) = 2 /\ max_pages = 2 /\ max_retries = 2
    /\ FetchRank = 8 /\ calls_query = 4 /\ calls_page = 2
    /\ Len(pages) = 4

(***************************************************************************)
(* Partial failure and page numbers of the API-mode run; the failed list   *)
(* of a run result.                                                        *)
(***************************************************************************)
\* the request of the current query ended in an explicit provider error or
\* raised
RequestFailed ==
    last_response # <<>> /\ last_response[1].kind \in {"error", "raises"}

\* the state part of C26: a failed request ends the pagination of the
\* query; when it was not the first request of the query, results of the
\* earlier pages are at hand and the query is not listed as failed; and the
\* query is listed as failed exactly when its first request returned an
\* explicit provider error
C26_FailedOnlyOnFirstError ==
    /\ (pc = "request" => ~RequestFailed)
    /\ (pc = "end_query" /\ RequestFailed /\ page_num > 0) =>
          /\ query_jobs # <<>>
          /\ FailedKey(queries[qi]) \notin Range(failed_queries)
    /\ pc = "end_query" =>
          (FailedKey(queries[qi]) \in Range(failed_queries) <=>
              (page_num = 0 /\ last_response # <<>>
               /\ last_response[1].kind = "error"))
    /\ \A k \in 1..Len(queries) :
          (k > qi \/ pc \in {"resolve_key", "validate"}) =>
              FailedKey(queries[k]) \notin Range(failed_queries)

\* the step part of C26: the results a query has collected when it ends are
\* emitted as one successful page whose payload is the marker followed by
\* these results; a query without results emits nothing
C26_EarlierResultsEmitted ==
    pc = "end_query" =>
        IF query_jobs # <<>>
        THEN /\ Len(pages') = Len(pages) + 1
             /\ SubSeq(pages', 1, Len(pages)) = pages
             /\ LET p == pages'[Len(pages')] IN
                  /\ p.success
                  /\ p.query = queries[qi].keywords
                  /\ p.location = queries[qi].location
                  /\ startswith_marker(p.html)
                  /\ Tail(p.html) = json_dumps(query_jobs)
             /\ failed_queries' = failed_queries
        ELSE pages' = pages /\ failed_queries' = failed_queries

\* C26: an explicit error or a raising request on a page after the first
\* stops the pagination of the query, the results of its earlier pages are
\* still emitted as one successful marker-tagged RawJobPage and the query is
\* not added to the failed list; a query is in the failed list exactly when
\* its first request returned an explicit provider error.
C26_ApiPartialFailure ==
    []C26_FailedOnlyOnFirstError /\ [][C26_EarlierResultsEmitted]_vars

\* C26 witness: with a limit of 2 pages, the first query got a full page
\* with a token and then an explicit error; its page of 10 results was
\* emitted as successful and nothing is listed as failed.
C26_Witness ==
    /\ max_pages = 2 /\ qi = 2 /\ pc \in {"request", "exit"}
    /\ page_num = 0 /\ last_response = <<>>
    /\ requests_total = 2
    /\ Len(pages) = 1 /\ pages[1].success
    /\ startswith_marker(pages[1].html)
    /\ Len(pages[1].html) = 3 + FullPage
    /\ pages[1].query = queries[1].keywords
    /\ failed_queries = <<>>

\* C27 as stated: the page_number of the RawJobPage of an API-mode query
\* never exceeds max_pages_per_query.
C27_PageNumberWithinLimit ==
    \A i \in 1..Len(pages) : pages[i].page_number <= max_pages

\* C29 as stated: in a run result, a query listed in failed_queries has no
\* successful RawJobPage in the same result, and no query is listed twice.
C29_FailedQueryHasNoPage ==
    scraper_result # <<>> =>
        LET r == scraper_result[1] IN
        /\ \A i \in 1..Len(r.pages) :
              r.pages[i].success =>
                 FailedKey([keywords |-> r.pages[i].query,
                            location |-> r.pages[i].location])
                     \notin Range(r.failed_queries)
        /\ \A i, j \in 1..Len(r.failed_queries) :
              i # j => r.failed_queries[i] # r.failed_queries[j]

(***************************************************************************)
(* Properties of the extraction of one page (SpecExtract).                 *)
(***************************************************************************)
\* the page of the run has been taken up and its records were extracted
PageExtracted == Len(sr_pages) = 1 /\ page_i = 2 /\ pages_ok = 1

\* the payload of the page, and the elements it is made of
PageHtml == sr_pages[1].html
PageElements == Range(PageHtml)

\* a text carries a contract, part-time or internship signal
ContractSignal(text) ==
    \E p \in 1..Len(text) : Lower(text)[p] \in {"contract", "contractor"}
PartTimeSignal(text) ==
    \/ \E p \in 1..Len(text) : Lower(text)[p] = "part-time"
    \/ \E p \in 1..(Len(text) - 2) :
          SubSeq(Lower(text), p, p + 2) = <<"part", " ", "time">>
InternshipSignal(text) ==
    \/ \E p \in 1..Len(text) : Lower(text)[p] = "internship"
    \/ \E p \in 1..(Len(text) - 1) :
          SubSeq(Lower(text), p, p + 1) = <<"intern", " ">>

EmploymentRule(text) ==
    IF ContractSignal(text) THEN "Contract"
    ELSE IF PartTimeSignal(text) THEN "Part-time"
    ELSE IF InternshipSignal(text) THEN "Internship"
    ELSE "Full-time"

\* C21 as stated: the employment type of every record that extraction
\* produces, on the card path, the structured-data path and the API path,
\* is never NotSpecified; on the markup paths, where the title is the text
\* that is classified, it is Contract when the title carries a contract
\* signal, else Part-time on a part-time signal, else Internship on an
\* internship signal, else Full-time.
C21_EmploymentTypeNeverNotSpecified ==
    \A i \in 1..Len(all_jobs) :
        /\ all_jobs[i].employment_type # NOT_SPECIFIED
        /\ all_jobs[i].employment_type
              \in {"Contract", "Part-time", "Internship", "Full-time"}
        /\ parsed_as = <<"markup">> =>
              all_jobs[i].employment_type = EmploymentRule(all_jobs[i].title)

\* the cards that the first matching selector supplies (<<>> when no selector
\* matches)
FirstMatching(html) ==
    LET K == { k \in 1..Len(card_selectors) :
                 \E t \in Range(html) : card_selectors[k] \in t.sel }
    IN  IF K = {} THEN 0 ELSE CHOOSE k \in K : \A j \in K : k <= j

MatchedCards(html) ==
    LET Supplied(t) == FirstMatching(html) # 0
                       /\ card_selectors[FirstMatching(html)] \in t.sel
    IN  SelectSeq(html, Supplied)

\* the title candidates of a card whose text is not empty after cleaning,
\* in candidate order
NonEmptyTitles(card) ==
    LET NonEmpty(tag) == tag # <<>> /\ _clean_text(tag[1]) # <<>>
    IN  SelectSeq(card.title_tags, NonEmpty)

\* C22 as stated: the records of a page of cards none of which raises are
\* those of the cards with some title candidate that is non-empty after
\* cleaning, each with the cleaned text of its first such candidate as the
\* title; a card is dropped exactly when it has no such candidate.
C22_FirstNonEmptyTitleWins ==
    (PageExtracted /\ parsed_as = <<"markup">>
     /\ MatchedCards(PageHtml) # <<>>
     /\ \A t \in PageElements : ~t.raises) =>
        LET HasTitle(c) == NonEmptyTitles(c) # <<>>
            kept == SelectSeq(MatchedCards(PageHtml), HasTitle)
        IN  /\ Len(all_jobs) = Len(kept)
            /\ \A i \in 1..Len(kept) :
                  all_jobs[i].title = _clean_text(NonEmptyTitles(kept[i])[1][1])

\* the title that the mapping of a card or of a provider record reads
ResolvedTitle(t) ==
    IF t.kind = "item" THEN _clean_text(t.title)
    ELSE LET present == SelectSeq(t.title_tags, LAMBDA tag : tag # <<>>)
         IN  IF present = <<>> THEN <<>> ELSE _clean_text(present[1][1])

\* the card (the record) has a title and its mapping does not raise
MapsToRecord(t) == ResolvedTitle(t) # <<>> /\ ~t.raises

\* the identifier of the record of a card, or of the provider record at
\* 0-based position index
RecordId(t, index) ==
    IF t.kind = "item"
    THEN (IF t.job_id = None THEN SynthesizedId(index) ELSE t.job_id)
    ELSE (IF Truthy(t.job_id) THEN t.job_id ELSE None)

\* the elements that are mapped: the cards supplied by the first matching
\* selector, or the provider records of the JSON array
MappedElements ==
    IF parsed_as = <<"json">>
    THEN SelectSeq(PageHtml, LAMBDA t : t.kind = "item")
    ELSE MatchedCards(PageHtml)

\* C23: when the mapping of a matched card, or of an API item, raises, that
\* card is dropped and the other cards of the page are still mapped: the
\* records of the page are those of the cards that have a title and did not
\* fail, in card order.
C23_PerCardFailureIsolation ==
    (PageExtracted /\ MappedElements # <<>>) =>
        LET kept == SelectSeq(MappedElements, MapsToRecord) IN
        /\ Len(all_jobs) = Len(kept)
        /\ \A i \in 1..Len(kept) :
              /\ all_jobs[i].title = ResolvedTitle(kept[i])
              /\ \E p \in 1..Len(MappedElements) :
                    /\ MappedElements[p] = kept[i]
                    /\ all_jobs[i].job_id = RecordId(kept[i], p - 1)

\* C23 witness: a page with two cards matched by the same selector; the
\* mapping of the first raises, the second is mapped and is the one record
\* of the page.
C23_Witness ==
    /\ PageExtracted /\ parsed_as = <<"markup">>
    /\ Len(PageHtml) = 2 /\ MatchedCards(PageHtml) = PageHtml
    /\ PageHtml[1].raises /\ ResolvedTitle(PageHtml[1]) # <<>>
    /\ MapsToRecord(PageHtml[2])
    /\ Len(all_jobs) = 1 /\ all_jobs[1].job_id = PageHtml[2].job_id

\* the JobPosting objects with a title that the scripts of a payload hold
LdBlocks(html) ==
    { <<s, k>> \in (1..Len(html)) \X (1..2) :
        /\ IsLdScript(html[s]) /\ k <= Len(html[s].ld)
        /\ html[s].ld[k].is_dict
        /\ html[s].ld[k].type = "JobPosting" /\ html[s].ld[k].title # <<>> }

\* the mapping of no object of the payload's scripts raises
NoLdMappingRaises(html) ==
    \A s \in 1..Len(html) :
        \A k \in 1..Len(html[s].ld) : ~_json_ld_to_job(html[s].ld[k]).raised

\* the records come from cards that the first matching selector supplies
FromFirstMatching ==
    /\ Len(all_jobs) <= Len(MatchedCards(PageHtml))
    /\ \A i \in 1..Len(all_jobs) :
          \E c \in Range(MatchedCards(PageHtml)) :
              /\ MapsToRecord(c)
              /\ all_jobs[i].job_id = RecordId(c, 0)
              /\ all_jobs[i].title = ResolvedTitle(c)

\* the one record of the page is that of the one JobPosting block
OneRecordOfTheBlock ==
    LET b == CHOOSE b \in LdBlocks(PageHtml) : TRUE IN
    /\ Len(all_jobs) = 1
    /\ all_jobs[1].title = PageHtml[b[1]].ld[b[2]].title
    /\ all_jobs[1].job_id = None

\* C24 as stated: the card selectors are tried in their fixed order and
\* the first selector with any match supplies the cards; the
\* structured-data path is used only when no selector matches, and then a
\* payload with exactly one embedded JobPosting block with a title yields
\* exactly one record, taken from that block.
C24_SelectorOrderAndFallback ==
    (PageExtracted /\ parsed_as = <<"markup">>) =>
        IF FirstMatching(PageHtml) # 0 THEN FromFirstMatching
        ELSE Cardinality(LdBlocks(PageHtml)) = 1 => OneRecordOfTheBlock

\* the part of C24 that the code keeps: the selector order, and the one
\* record of the fallback whenever the mapping of no object raises
C24_FallbackWhenNoMappingRaises ==
    (PageExtracted /\ parsed_as = <<"markup">>) =>
        IF FirstMatching(PageHtml) # 0 THEN FromFirstMatching
        ELSE (Cardinality(LdBlocks(PageHtml)) = 1
              /\ NoLdMappingRaises(PageHtml)) => OneRecordOfTheBlock

\* C24, the block that is lost: no element of the page matches a selector,
\* the page is one script holding one JobPosting object with a title, whose
\* jobLocation.address is a text, and extraction returns no record.
C24_BlockLost ==
    /\ PageExtracted /\ parsed_as = <<"markup">>
    /\ FirstMatching(PageHtml) = 0
    /\ Len(PageHtml) = 1 /\ PageHtml[1].kind = "ld_dict"
    /\ Cardinality(LdBlocks(PageHtml)) = 1
    /\ PageHtml[1].ld[1].address = "str"
    /\ all_jobs = <<>>

\* C24, the fallback at work: no element of the page matches a selector,
\* its scripts hold one JobPosting object with a title among other objects,
\* and the one record has the title of that object.
C24_WitnessFallback ==
    /\ PageExtracted /\ parsed_as = <<"markup">>
    /\ FirstMatching(PageHtml) = 0
    /\ Len(PageHtml) = 2 /\ Cardinality(LdBlocks(PageHtml)) = 1
    /\ NoLdMappingRaises(PageHtml)
    /\ \E s \in 1..2 : PageHtml[s].kind = "ld_list" /\ Len(PageHtml[s].ld) = 2
    /\ Len(all_jobs) = 1 /\ all_jobs[1].job_id = None

\* two records agree in every field but the skill tags (and the identity
\* given on joining all_jobs)
SameButSkills(before, after) ==
    [before EXCEPT !.required_skills = <<>>, !.uid = 0]
        = [after EXCEPT !.required_skills = <<>>, !.uid = 0]

\* what a backfill pass may do to a record
BackfillFrame(before, after) ==
    /\ SameButSkills(before, after)
    /\ before.required_skills # <<>> =>
          after.required_skills = before.required_skills

\* the step of run_parser or parse_job_pages that extracts a page and
\* backfills its records, and the step of enrich_jobs_with_skills
C25_BackfillStep ==
    /\ (ppc = "pages" /\ pages_ok' = pages_ok + 1) =>
          LET extracted == Extracted(parsed_as'[page_i], sr_pages[page_i].html)
          IN  /\ Len(all_jobs') = Len(all_jobs) + Len(extracted)
              /\ \A i \in 1..Len(extracted) :
                    BackfillFrame(extracted[i], all_jobs'[Len(all_jobs) + i])
    /\ (ppc = "done" /\ ppc' = "enriched") =>
          /\ Len(batch'[1].jobs) = Len(batch[1].jobs)
          /\ \A i \in 1..Len(batch[1].jobs) :
                BackfillFrame(batch[1].jobs[i], batch'[1].jobs[i])

\* C25: every skill-backfill pass (of run_parser, of parse_job_pages and of
\* enrich_jobs_with_skills) changes a record only when its skill tags are
\* empty and then changes the skill tags only; a record with skill tags is
\* left as it is in every field.
C25_SkillBackfillFrame == [][C25_BackfillStep]_vars

\* C25 witness: a card whose title names a skill was extracted without
\* skill tags and the pass of run_parser gave it the tag;
\* enrich_jobs_with_skills then ran over the batch and left the tagged
\* record as it was, while the second record of the page, without a skill
\* in its texts, still has no tags.
C25_Witness ==
    /\ ppc = "enriched" /\ entry_point = "run_parser"
    /\ parsed_as = <<"markup">> /\ PageExtracted
    /\ Len(Extracted("markup", PageHtml)) = 2
    /\ Extracted("markup", PageHtml)[1].required_skills = <<>>
    /\ Len(all_jobs) = 2
    /\ all_jobs[1].required_skills = <<"Go">>
    /\ all_jobs[2].required_skills = <<>>
    /\ batch[1].jobs = all_jobs

(***************************************************************************)
(* Synthesized identifiers and the accounting of run_parser (SpecParser).  *)
(***************************************************************************)
\* the identifier was made from the position of the record
IsSynthesized(id) == \E k \in 0..MaxCards : id = SynthesizedId(k)

\* C28 as stated: of two API records that both lack a provider identifier
\* and differ in their (title, company) key, the later is kept by the
\* deduplicator whenever no earlier record has its key.
C28_SynthesizedIdNoFalseDuplicate ==
    (ppc = "done" /\ entry_point = "run_parser") =>
        \A i, j \in 1..Len(all_jobs) :
            ( /\ i < j
              /\ IsSynthesized(all_jobs[i].job_id)
              /\ IsSynthesized(all_jobs[j].job_id)
              /\ \A h \in 1..(j - 1) :
                    TitleCompanyKey(all_jobs[h]) # TitleCompanyKey(all_jobs[j]) )
            => all_jobs[j] \in Range(batch[1].jobs)

\* page i of the input is unsuccessful or empty, or its extraction raises
PageFails(i) ==
    \/ ~sr_pages[i].success
    \/ sr_pages[i].html = <<>>
    \/ /\ startswith_marker(sr_pages[i].html)
       /\ Tail(sr_pages[i].html) = <<DeepArray>>

\* the records extracted from the first n pages of the input of run_parser
RECURSIVE RecordsExtracted(_)
RecordsExtracted(n) ==
    IF n = 0 THEN 0
    ELSE RecordsExtracted(n - 1)
         + (IF PageFails(n) THEN 0
            ELSE Len(Extracted(Route_run_parser(sr_pages[n]),
                               sr_pages[n].html)))

\* C30: in the batch that run_parser returns, total_parsed is the number of
\* unique records, total_parsed + duplicate_count is the number of records
\* extracted from all pages, source_pages is the number of input pages, and
\* total_failed, the number of pages that are unsuccessful or empty or
\* whose extraction raised, plus the number of pages extracted without
\* error is source_pages.
C30_ParserAccounting ==
    (ppc = "done" /\ entry_point = "run_parser") =>
        LET b == batch[1]
            failed == { i \in 1..Len(sr_pages) : PageFails(i) }
        IN  /\ b.total_parsed = Len(b.jobs)
            /\ b.total_parsed + b.duplicate_count
                  = RecordsExtracted(Len(sr_pages))
            /\ b.source_pages = Len(sr_pages)
            /\ b.total_failed = Cardinality(failed)
            /\ pages_ok = Len(sr_pages) - Cardinality(failed)
            /\ b.total_failed + pages_ok = b.source_pages

\* C30 witness: three input pages, one unsuccessful, one whose extraction
\* raises and one with a card: two failed pages, one page extracted, one
\* record, no duplicate.
C30_Witness ==
    /\ ppc = "done" /\ entry_point = "run_parser"
    /\ Len(sr_pages) = 3
    /\ ~sr_pages[1].success
    /\ sr_pages[2].html = <<MarkerToken, DeepArray>>
    /\ parsed_as = <<"skipped", "json", "markup">>
    /\ batch[1].total_failed = 2 /\ pages_ok = 1
    /\ batch[1].total_parsed = 1 /\ batch[1].duplicate_count = 0
    /\ batch[1].source_pages = 3

====
